---- MODULE Spec2Model ----
(***************************************************************************)
(* pdf-tools: the signed session token (src/src/session.rs) and the        *)
(* upload-and-process handlers (src/src/handlers/api.rs, src/src/pdf.rs).  *)
(*                                                                         *)
(* Token text is a sequence of byte values (ASCII codes); the text of a    *)
(* form field is a sequence of one-character strings.  Time is counted in  *)
(* ticks of 1/TicksPerSec second, so that OffsetDateTime keeps a           *)
(* sub-second part that unix_timestamp() truncates.                        *)
(*                                                                         *)
(* SpecSession runs the signer alone.  Spec and SpecUpload run one request *)
(* through a handler: Spec with every kind of field and file bodies that   *)
(* arrive whole, SpecUpload with file fields whose bodies arrive in chunks.*)
(***************************************************************************)
EXTENDS Integers, Sequences, FiniteSets, TLC

VARIABLES
    \* ---- session signer (session.rs) ----
    ttl,        \* SessionSigner.ttl, in ticks
    clock,      \* the wall clock (OffsetDateTime::now_utc), in ticks
    cookie,     \* the token most recently issued: [token, u, at], or NoCookie
    checked,    \* the verify call made at this instant: [token, at, res], or NoCheck
    \* ---- one request to /api/merge or /api/npages (handlers/api.rs) ----
    endpoint,   \* "merge" or "npages"
    frame,      \* the handler's frame: its position and its local variables
    tmp,        \* TRUE while the request's TempDir exists
    scratch,    \* the files in the TempDir
    child,      \* the subprocess the handler waits for, or NoChild
    procs,      \* every cmd.spawn() the request made, in order
    polled,     \* TRUE once multipart.next_field() has been called
    made,       \* the number of scratch files the request created
    result,     \* what the handler returned, or NoResult
    \* ---- requests handled at the same time, and the temporary directory ----
    requests,   \* per request: the handler's state and the TempDir's name
    disk,       \* what exists under the system's temporary directory
    \* ---- the clients ----
    issued      \* the cookies login has handed out, which a client may keep

sessVars == <<ttl, clock, cookie, checked>>
hostVars == <<requests, disk, issued>>
reqVars == <<endpoint, frame, tmp, scratch, child, procs, polled, made, result, hostVars>>
vars == <<ttl, clock, cookie, checked, endpoint, frame, tmp, scratch, child, procs,
          polled, made, result, requests, disk, issued>>

\* ------------------------------------------------------------------------
\* Bounds of the model
\* ------------------------------------------------------------------------
TicksPerSec == 2        \* clock resolution: two ticks per second
MaxClock == 5           \* the clock stops advancing after this many ticks
MaxTtlSecs == 2         \* the longest session lifetime tried, in seconds
MaxChunks == 2          \* chunks one file field is delivered in

\* ------------------------------------------------------------------------
\* Characters
\* ------------------------------------------------------------------------
ChDot == 46             \* '.', the separator of the token's parts

\* "v1"
VersionTag == <<118, 49>>

\* ------------------------------------------------------------------------
\* base64::engine::general_purpose::URL_SAFE_NO_PAD
\* ------------------------------------------------------------------------
\* the URL-safe alphabet: A-Z a-z 0-9 - _
B64Char(v) ==
    IF v < 26 THEN 65 + v
    ELSE IF v < 52 THEN 71 + v
    ELSE IF v < 62 THEN v - 4
    ELSE IF v = 62 THEN 45
    ELSE 95

\* the value of an alphabet character, -1 for any other byte
B64Val(c) ==
    IF c >= 65 /\ c <= 90 THEN c - 65
    ELSE IF c >= 97 /\ c <= 122 THEN c - 71
    ELSE IF c >= 48 /\ c <= 57 THEN c + 4
    ELSE IF c = 45 THEN 62
    ELSE IF c = 95 THEN 63
    ELSE -1

RECURSIVE B64Encode(_)
B64Encode(b) ==
    IF Len(b) = 0 THEN <<>>
    ELSE IF Len(b) = 1 THEN
        << B64Char(b[1] \div 4), B64Char((b[1] % 4) * 16) >>
    ELSE IF Len(b) = 2 THEN
        << B64Char(b[1] \div 4),
           B64Char((b[1] % 4) * 16 + (b[2] \div 16)),
           B64Char((b[2] % 16) * 4) >>
    ELSE
        << B64Char(b[1] \div 4),
           B64Char((b[1] % 4) * 16 + (b[2] \div 16)),
           B64Char((b[2] % 16) * 4 + (b[3] \div 64)),
           B64Char(b[3] % 64) >> \o B64Encode(SubSeq(b, 4, Len(b)))

\* the bytes of a text made of alphabet characters only; the last group may
\* be short, and its unused low bits are dropped here and checked by the caller
RECURSIVE B64Bytes(_)
B64Bytes(s) ==
    IF Len(s) <= 1 THEN <<>>
    ELSE IF Len(s) = 2 THEN
        << B64Val(s[1]) * 4 + (B64Val(s[2]) \div 16) >>
    ELSE IF Len(s) = 3 THEN
        << B64Val(s[1]) * 4 + (B64Val(s[2]) \div 16),
           (B64Val(s[2]) % 16) * 16 + (B64Val(s[3]) \div 4) >>
    ELSE
        << B64Val(s[1]) * 4 + (B64Val(s[2]) \div 16),
           (B64Val(s[2]) % 16) * 16 + (B64Val(s[3]) \div 4),
           (B64Val(s[3]) % 4) * 64 + B64Val(s[4]) >> \o B64Bytes(SubSeq(s, 5, Len(s)))

\* the bits of the last character that carry no data (0 when there are none)
B64TrailingBits(s) ==
    IF Len(s) % 4 = 2 THEN B64Val(s[Len(s)]) % 16
    ELSE IF Len(s) % 4 = 3 THEN B64Val(s[Len(s)]) % 4
    ELSE 0

\* decode with the default configuration: no padding accepted, a byte outside
\* the alphabet is an error, a length of 1 mod 4 is an error, and non-zero
\* trailing bits are an error (decode_allow_trailing_bits is off)
B64Decode(s) ==
    IF \E i \in 1..Len(s) : B64Val(s[i]) < 0 THEN [ok |-> FALSE, v |-> <<>>]
    ELSE IF Len(s) % 4 = 1 THEN [ok |-> FALSE, v |-> <<>>]
    ELSE IF B64TrailingBits(s) # 0 THEN [ok |-> FALSE, v |-> <<>>]
    ELSE [ok |-> TRUE, v |-> B64Bytes(s)]


\* ------------------------------------------------------------------------
\* serde_json on SessionPayload { u: String, exp_unix: i64 }
\* ------------------------------------------------------------------------
RECURSIVE IntToDec(_)
IntToDec(n) ==
    IF n < 0 THEN <<45>> \o IntToDec(0 - n)
    ELSE IF n < 10 THEN <<48 + n>>
    ELSE IntToDec(n \div 10) \o <<48 + (n % 10)>>

\* a string body as serde_json writes it: '"' and '\' get a backslash
\* a string body written without escaping
JsonEscapeNone(s) == s

RECURSIVE JsonEscape(_)
JsonEscape(s) ==
    IF Len(s) = 0 THEN <<>>
    ELSE (IF s[1] = 34 \/ s[1] = 92 THEN <<92, s[1]>> ELSE <<s[1]>>)
         \o JsonEscape(Tail(s))

\* {"u":"
JsonHead == <<123, 34, 117, 34, 58, 34>>
\* ","exp_unix":
JsonMid == <<34, 44, 34, 101, 120, 112, 95, 117, 110, 105, 120, 34, 58>>

\* serde_json::to_vec(&payload): compact, fields in declaration order
ToJson(u, exp_unix) ==
    JsonHead \o JsonEscape(u) \o JsonMid \o IntToDec(exp_unix) \o <<125>>

IsPrefixAt(p, s, i) ==
    /\ i + Len(p) - 1 <= Len(s)
    /\ \A k \in 1..Len(p) : s[i + k - 1] = p[k]

\* reads a string body from position i up to its closing quote:
\* [ok, v (the unescaped text), next (the position of the closing quote)]
RECURSIVE JsonString(_, _, _)
JsonString(s, i, acc) ==
    IF i > Len(s) THEN [ok |-> FALSE, v |-> <<>>, next |-> i]
    ELSE IF s[i] = 34 THEN [ok |-> TRUE, v |-> acc, next |-> i]
    ELSE IF s[i] = 92 THEN
        IF i + 1 <= Len(s) /\ (s[i + 1] = 34 \/ s[i + 1] = 92)
        THEN JsonString(s, i + 2, Append(acc, s[i + 1]))
        ELSE [ok |-> FALSE, v |-> <<>>, next |-> i]
    ELSE IF s[i] < 32 THEN [ok |-> FALSE, v |-> <<>>, next |-> i]
    ELSE JsonString(s, i + 1, Append(acc, s[i]))

IsDigit(c) == c >= 48 /\ c <= 57

RECURSIVE DecToInt(_, _)
DecToInt(s, acc) ==
    IF Len(s) = 0 THEN acc ELSE DecToInt(Tail(s), acc * 10 + (s[1] - 48))

\* an integer literal: optional '-', digits, no leading zero
JsonInt(s) ==
    LET neg == Len(s) > 0 /\ s[1] = 45
        d == IF neg THEN Tail(s) ELSE s
    IN  IF Len(d) = 0 \/ (\E k \in 1..Len(d) : ~IsDigit(d[k]))
           \/ (Len(d) > 1 /\ d[1] = 48)
        THEN [ok |-> FALSE, v |-> 0]
        ELSE [ok |-> TRUE, v |-> IF neg THEN 0 - DecToInt(d, 0) ELSE DecToInt(d, 0)]

\* serde_json::from_slice::<SessionPayload>, for the compact form that
\* ToJson writes; any other text is a malformed payload
FromJson(s) ==
    LET bad == [ok |-> FALSE, u |-> <<>>, exp_unix |-> 0] IN
    IF ~IsPrefixAt(JsonHead, s, 1) THEN bad
    ELSE LET str == JsonString(s, Len(JsonHead) + 1, <<>>) IN
         IF ~str.ok \/ ~IsPrefixAt(JsonMid, s, str.next) THEN bad
         ELSE LET from == str.next + Len(JsonMid) IN
              IF Len(s) < from \/ s[Len(s)] # 125 THEN bad
              ELSE LET n == JsonInt(SubSeq(s, from, Len(s) - 1)) IN
                   IF ~n.ok THEN bad
                   ELSE [ok |-> TRUE, u |-> str.v, exp_unix |-> n.v]


\* ------------------------------------------------------------------------
\* SessionSigner (session.rs)
\* ------------------------------------------------------------------------
\* the server's secret, and a secret the server does not hold
Key == <<107, 49>>
OtherKey == <<107, 50>>

\* HMAC-SHA256 is modelled as a keyed 16-bit checksum: a tag of two bytes
\* that depends on every byte of the key and of the message
RECURSIVE MacFold(_, _)
MacFold(h, s) ==
    IF Len(s) = 0 THEN h ELSE MacFold((h * 31 + s[1] + 7) % 65536, Tail(s))

HmacSha256(key, msg) ==
    LET h == MacFold(MacFold(0, key), msg) IN << h \div 256, h % 256 >>

\* OffsetDateTime::unix_timestamp(): whole seconds, the sub-second part dropped
UnixTimestamp(t) == t \div TicksPerSec

\* str::split on the separator: the parts, always at least one
RECURSIVE Split(_, _)
Split(s, sep) ==
    IF \A i \in 1..Len(s) : s[i] # sep THEN << s >>
    ELSE LET i == CHOOSE k \in 1..Len(s) :
                      s[k] = sep /\ \A j \in 1..(k - 1) : s[j] # sep
         IN  << SubSeq(s, 1, i - 1) >> \o Split(SubSeq(s, i + 1, Len(s)), sep)

issue(key, lifetime, username, now) ==
    LET exp_unix == UnixTimestamp(now + lifetime)
        payload_b64 == B64Encode(ToJson(username, exp_unix))
        sig_b64 == B64Encode(HmacSha256(key, payload_b64))
    IN  VersionTag \o <<ChDot>> \o payload_b64 \o <<ChDot>> \o sig_b64

\* the outcome of verify: None (ok = FALSE) or Some(payload); `stage` is the
\* statement of verify that returned
Rejected(stage) == [ok |-> FALSE, u |-> <<>>, exp_unix |-> 0, stage |-> stage]

\* version != "v1" || parts.next().is_some(), with the comparison slipped
VersionMismatchAnyTag(parts) == Len(parts) > 3

\* version != "v1" || parts.next().is_some()
VersionMismatch(parts) == parts[1] # VersionTag \/ Len(parts) > 3

\* payload.exp_unix <= now.unix_timestamp(), with < written for <=
ExpiredAfter(exp_unix, now) == exp_unix < UnixTimestamp(now)

\* payload.exp_unix <= now.unix_timestamp()
Expired(exp_unix, now) == exp_unix <= UnixTimestamp(now)

verify(key, token, now) ==
    LET parts == Split(token, ChDot) IN
    IF Len(parts) < 3 THEN Rejected("parts")
    ELSE IF VersionMismatch(parts) THEN Rejected("version")
    ELSE LET sig == B64Decode(parts[3]) IN
    IF ~sig.ok THEN Rejected("sig_b64")
    ELSE IF sig.v # HmacSha256(key, parts[2]) THEN Rejected("mac")
    ELSE LET payload_json == B64Decode(parts[2]) IN
    IF ~payload_json.ok THEN Rejected("payload_b64")
    ELSE LET payload == FromJson(payload_json.v) IN
    IF ~payload.ok THEN Rejected("json")
    ELSE IF Expired(payload.exp_unix, now) THEN Rejected("expired")
    ELSE [ok |-> TRUE, u |-> payload.u, exp_unix |-> payload.exp_unix, stage |-> "ok"]


\* ------------------------------------------------------------------------
\* Values of a request's state
\* ------------------------------------------------------------------------
MAX_PDFS == 10
MAX_FILE_BYTES == 30 * 1024 * 1024

NoField ==
    [name |-> <<>>, declared |-> [present |-> FALSE, v |-> <<>>],
     content_type |-> <<>>, text |-> <<>>]
NoFile == [path |-> [kind |-> "", style |-> "", n |-> "", gen |-> 0],
           written |-> 0, size |-> 0, head |-> <<>>, chunks |-> 0]
NoLayout == [present |-> FALSE, valid |-> FALSE, refs |-> <<>>]
Args(inputs, out, dpi, jpegq) ==
    [inputs |-> inputs, out |-> out, dpi |-> dpi, jpegq |-> jpegq]
NoChild ==
    [tool |-> "", stage |-> "", doc |-> "",
     args |-> Args(<<>>, [kind |-> "", style |-> "", n |-> "", gen |-> 0], 0, 0)]
NoResponse == [status |-> 0, body |-> [text |-> "", args |-> <<>>]]
NoResult == [kind |-> "None", msg |-> "", args |-> <<>>, response |-> NoResponse]
NoPath == [kind |-> "", style |-> "", n |-> "", gen |-> 0]
EmptyMap == [d \in {} |-> 0]

\* the frame of a handler that has not started: the initial values of merge's
\* locals (quality 80, linearize false, no layout, no inputs)
\* LoginForm
NoForm == [username |-> <<>>, password |-> <<>>]

Frame0 ==
    [pc |-> "start",
     quality |-> 80,
     linearize |-> FALSE,
     layout_json |-> NoLayout,
     input_paths_legacy |-> <<>>,
     inputs_by_id |-> EmptyMap,
     field |-> NoField,
     cur |-> NoFile,
     pages_by_doc |-> EmptyMap,
     layout |-> <<>>,
     pdf_path |-> NoPath,
     form |-> NoForm]

\* ------------------------------------------------------------------------
\* The signer in use: tokens are issued, presented (as issued or altered)
\* and verified while the clock advances
\* ------------------------------------------------------------------------
NoCookie == [token |-> <<>>, u |-> <<>>, at |-> -1]
NoCheck == [token |-> <<>>, at |-> -1, res |-> Rejected("none")]

\* "ad", a double quote, "a\", a dot
Usernames == { <<97, 100>>, <<34>>, <<97, 92>>, <<46>> }

\* session lifetimes: half a second's worth of one tick, and whole seconds
Ttls == {1} \cup { s * TicksPerSec : s \in 1..MaxTtlSecs }

\* other version tags: "v2", "V1", "v", "v11", ""
OtherTags == { <<118, 50>>, <<86, 49>>, <<118>>, <<118, 49, 49>>, <<>> }

ReplaceAt(s, i, c) == [s EXCEPT ![i] = c]

\* the characters a position is changed to: two other alphabet characters,
\* a padding character and a separator
Replacements(c) ==
    { B64Char((B64Val(c) + 1) % 64), B64Char((B64Val(c) + 4) % 64), 61, ChDot } \ {c}

\* what a client holding token t can present
Presented(t, u, at) ==
    LET parts == Split(t, ChDot)
        sigFrom == Len(t) - Len(parts[3]) + 1
        payTo == sigFrom - 2
    IN  {t, <<>>}
        \cup { ReplaceAt(t, i, c) : i \in sigFrom..Len(t), c \in Replacements(t[Len(t)]) }
        \cup { ReplaceAt(t, payTo, c) : c \in Replacements(t[payTo]) }
        \cup { tag \o SubSeq(t, 3, Len(t)) : tag \in OtherTags }
        \cup { t \o <<ChDot, 65>>, SubSeq(t, 1, payTo) }
        \cup { issue(OtherKey, ttl, u, at) }

InitSession ==
    /\ ttl \in Ttls
    /\ clock = 0
    /\ cookie = NoCookie
    /\ checked = NoCheck
    /\ endpoint = "merge"
    /\ frame = Frame0
    /\ tmp = FALSE
    /\ scratch = {}
    /\ child = NoChild
    /\ procs = <<>>
    /\ polled = FALSE
    /\ made = 0
    /\ result = NoResult
    /\ requests = <<>>
    /\ disk = {}
    /\ issued = {}

Issue(u) ==
    /\ cookie' = [token |-> issue(Key, ttl, u, clock), u |-> u, at |-> clock]
    /\ checked' = NoCheck
    /\ UNCHANGED <<ttl, clock>>
    /\ UNCHANGED reqVars

Verify(t) ==
    /\ checked' = [token |-> t, at |-> clock, res |-> verify(Key, t, clock)]
    /\ UNCHANGED <<ttl, clock, cookie>>
    /\ UNCHANGED reqVars

Advance ==
    /\ clock < MaxClock
    /\ clock' = clock + 1
    /\ checked' = NoCheck
    /\ UNCHANGED <<ttl, cookie>>
    /\ UNCHANGED reqVars

NextSession ==
    \/ \E u \in Usernames : Issue(u)
    \/ /\ cookie # NoCookie
       /\ \E t \in Presented(cookie.token, cookie.u, cookie.at) : Verify(t)
    \/ Advance

SpecSession == InitSession /\ [][NextSession]_vars


\* ------------------------------------------------------------------------
\* Properties of the session signer
\* ------------------------------------------------------------------------
Checking == checked # NoCheck /\ cookie # NoCookie

\* C1: a token verified at the instant it was issued, under the same key and
\* with a lifetime of at least one second, yields the username given to issue
C1_RoundTrip ==
    (Checking /\ checked.token = cookie.token /\ checked.at = cookie.at
        /\ ttl >= TicksPerSec)
    => (checked.res.ok /\ checked.res.u = cookie.u)

\* a username that needs escaping has gone through issue and verify
C1_Witness ==
    /\ Checking /\ checked.token = cookie.token /\ checked.at = cookie.at
    /\ ttl >= TicksPerSec
    /\ cookie.u = <<97, 92>>
    /\ checked.res.ok

\* C2: at every time t >= exp = issue time + TTL (t = exp included) verify
\* rejects the token; no username is returned then
C2_NoGraceWindow ==
    (Checking /\ checked.token = cookie.token /\ checked.at >= cookie.at + ttl)
    => ~checked.res.ok

\* a well-signed token is verified exactly at its expiry and rejected as expired
C2_Witness ==
    /\ Checking /\ checked.token = cookie.token
    /\ ttl >= TicksPerSec
    /\ checked.at = cookie.at + ttl
    /\ checked.res.stage = "expired"

\* t is orig with exactly one character of its signature part changed
IsSigMutation(t, orig) ==
    /\ Len(t) = Len(orig)
    /\ LET sigFrom == Len(orig) - Len(Split(orig, ChDot)[3]) + 1 IN
       \E i \in sigFrom..Len(orig) :
           /\ t[i] # orig[i]
           /\ \A j \in 1..Len(orig) : j # i => t[j] = orig[j]

\* the signature part of t is the MAC of its payload part under the server key
SignatureMatches(t) ==
    LET parts == Split(t, ChDot) IN
    /\ Len(parts) >= 3
    /\ parts[3] = B64Encode(HmacSha256(Key, parts[2]))

\* C3: verify returns a username only for a token of exactly three parts whose
\* first part is "v1" and whose signature part is the MAC of the payload part;
\* a token with one signature character changed is rejected; and the payload
\* is decoded only after the signature matched
C3_TamperResistance ==
    Checking =>
        /\ checked.res.ok =>
              /\ Len(Split(checked.token, ChDot)) = 3
              /\ Split(checked.token, ChDot)[1] = VersionTag
              /\ SignatureMatches(checked.token)
        /\ IsSigMutation(checked.token, cookie.token) => ~checked.res.ok
        /\ ~SignatureMatches(checked.token) =>
              checked.res.stage \in {"parts", "version", "sig_b64", "mac"}

\* a token whose signature differs in one character reached the MAC comparison
\* and failed it
C3_Witness ==
    /\ Checking
    /\ IsSigMutation(checked.token, cookie.token)
    /\ checked.res.stage = "mac"

\* ------------------------------------------------------------------------
\* Text of form fields: sequences of one-character strings
\* ------------------------------------------------------------------------
RECURSIVE TrimStart(_)
TrimStart(s) == IF Len(s) > 0 /\ s[1] = " " THEN TrimStart(Tail(s)) ELSE s

RECURSIVE TrimEnd(_)
TrimEnd(s) ==
    IF Len(s) > 0 /\ s[Len(s)] = " " THEN TrimEnd(SubSeq(s, 1, Len(s) - 1)) ELSE s

\* str::trim
Trim(s) == TrimEnd(TrimStart(s))

DigitChars == <<"0", "1", "2", "3", "4", "5", "6", "7", "8", "9">>
IsDigitChar(c) == \E i \in 1..10 : DigitChars[i] = c
DigitValue(c) == (CHOOSE i \in 1..10 : DigitChars[i] = c) - 1

RECURSIVE DigitsValue(_, _)
DigitsValue(s, acc) ==
    IF Len(s) = 0 THEN acc ELSE DigitsValue(Tail(s), acc * 10 + DigitValue(s[1]))

\* str::parse::<u8>: an optional '+', then digits, at most 255
ParseU8(s) ==
    LET d == IF Len(s) > 0 /\ s[1] = "+" THEN Tail(s) ELSE s IN
    IF Len(d) = 0 \/ (\E i \in 1..Len(d) : ~IsDigitChar(d[i]))
    THEN [ok |-> FALSE, v |-> 0]
    ELSE IF DigitsValue(d, 0) > 255 THEN [ok |-> FALSE, v |-> 0]
    ELSE [ok |-> TRUE, v |-> DigitsValue(d, 0)]

UpperChars == <<"A", "B", "C", "D", "E", "F", "G", "H", "I", "J", "K", "L", "M",
                "N", "O", "P", "Q", "R", "S", "T", "U", "V", "W", "X", "Y", "Z">>
LowerChars == <<"a", "b", "c", "d", "e", "f", "g", "h", "i", "j", "k", "l", "m",
                "n", "o", "p", "q", "r", "s", "t", "u", "v", "w", "x", "y", "z">>

\* str::to_ascii_lowercase
ToAsciiLowercase(s) ==
    [i \in 1..Len(s) |->
        IF \E k \in 1..26 : UpperChars[k] = s[i]
        THEN LowerChars[CHOOSE k \in 1..26 : UpperChars[k] = s[i]]
        ELSE s[i]]

\* util.rs: "1" | "true" | "on" | "yes" after trim and lowercasing
parse_bool_loose(s) ==
    ToAsciiLowercase(Trim(s)) \in
        { <<"1">>, <<"t", "r", "u", "e">>, <<"o", "n">>, <<"y", "e", "s">> }

\* ------------------------------------------------------------------------
\* Field headers.  A content type is a sequence of atoms: media types,
\* parameters, the separator ";" and blanks " ".  A field name is a sequence
\* of atoms too, so that the prefix "file_" can be stripped.
\* ------------------------------------------------------------------------
NoContentType == [present |-> FALSE, v |-> <<>>]
ContentType(v) == [present |-> TRUE, v |-> v]

\* mime::APPLICATION_PDF.essence_str()
PdfEssence == <<"application/pdf">>

\* m.split(';').next().unwrap_or("")
BeforeSemicolon(v) ==
    IF \A i \in 1..Len(v) : v[i] # ";" THEN v
    ELSE SubSeq(v, 1, (CHOOSE k \in 1..Len(v) :
                          v[k] = ";" /\ \A j \in 1..(k - 1) : v[j] # ";") - 1)

\* field.content_type().map(|m| m.split(';').next().unwrap_or("").trim()
\*     .to_string()).unwrap_or_default()
Essence(ct) == IF ct.present THEN Trim(BeforeSemicolon(ct.v)) ELSE <<>>

\* !content_type.is_empty() && content_type != "application/pdf", with the
\* declared type trusted only when it is absent
WrongContentTypeOrEmpty(content_type) == content_type # PdfEssence

\* !content_type.is_empty() && content_type != "application/pdf"
WrongContentType(content_type) ==
    content_type # <<>> /\ content_type # PdfEssence

\* name.strip_prefix("file_")
HasFilePrefix(name) == Len(name) >= 1 /\ name[1] = "file_"
DocIdOf(name) == IF Len(name) >= 2 THEN name[2] ELSE ""

\* ------------------------------------------------------------------------
\* The scratch area.  A path is [kind, style, n, gen]; gen is the serial
\* number that stands for the random uuid in the file name: the number of
\* files of the same kind, style and n that the directory already holds.
\* ------------------------------------------------------------------------
Uuid(files, kind, style, n) ==
    Cardinality({ f \in files : f.kind = kind /\ f.style = style /\ f.n = n })

NewPath(files, kind, style, n) ==
    [kind |-> kind, style |-> style, n |-> n, gen |-> Uuid(files, kind, style, n)]

\* tmp.path().join("in.pdf")
NPagesPath == [kind |-> "in.pdf", style |-> "", n |-> "", gen |-> 0]

\* b"%PDF-"
Magic == <<"%", "P", "D", "F", "-">>

Take(s, n) == IF Len(s) <= n THEN s ELSE SubSeq(s, 1, n)

\* a chunk of a field's body: its length and its first bytes (at most 5)
Chunk(head, len) == [head |-> head, len |-> len]

\* the loop body of write_multipart_field_to_file with the write placed
\* before the size check
WriteChunkThenCheck(f, c) ==
    LET written == f.written + c.len
        g == [f EXCEPT !.written = written, !.size = @ + c.len,
                       !.head = Take(@ \o c.head, 5), !.chunks = @ + 1]
    IN  [file |-> g, returned |-> written > MAX_FILE_BYTES]

\* the loop body of write_multipart_field_to_file: count the chunk; return
\* the count without writing when it exceeds the cap; else write the chunk
WriteChunk(f, c) ==
    LET written == f.written + c.len IN
    IF written > MAX_FILE_BYTES
    THEN [file |-> [f EXCEPT !.written = written, !.chunks = @ + 1], returned |-> TRUE]
    ELSE [file |-> [f EXCEPT !.written = written, !.size = @ + c.len,
                             !.head = Take(@ \o c.head, 5), !.chunks = @ + 1],
          returned |-> FALSE]

\* looks_like_pdf with the length of the read not checked
LooksLikePdfPrefix(f) == f.head = Take(Magic, Len(f.head))

\* looks_like_pdf: read up to 5 bytes; n == 5 && buf == "%PDF-"
looks_like_pdf(f) ==
    LET n == IF f.size < 5 THEN f.size ELSE 5 IN n = 5 /\ Take(f.head, n) = Magic

\* ------------------------------------------------------------------------
\* AppError and the handlers' results
\* ------------------------------------------------------------------------
Err(kind, msg, args) == [kind |-> kind, msg |-> msg, args |-> args]
BadRequest(msg, args) == Err("BadRequest", msg, args)
Internal(msg, args) == Err("Internal", msg, args)
Unauthorized == Err("Unauthorized", "Unauthorized", <<>>)
OkPdf(path) == [kind |-> "Ok", msg |-> "application/pdf", args |-> <<path>>]
OkJson(pages) == [kind |-> "Ok", msg |-> "application/json", args |-> <<pages>>]
Cancelled == [kind |-> "Cancelled", msg |-> "", args |-> <<>>]

\* ------------------------------------------------------------------------
\* The handlers, as steps from one await to the next.  A step maps the state
\*   s = [checked, frame, tmp, scratch, child, procs, polled, made, result]
\* and what the environment delivers to the state after the step.
\* ------------------------------------------------------------------------
EXTERNAL_PROCESS_TIMEOUT_SECS == 120

St == [checked |-> checked, frame |-> frame, tmp |-> tmp, scratch |-> scratch,
       child |-> child, procs |-> procs, polled |-> polled, made |-> made,
       result |-> result]

Set(n) ==
    /\ checked' = n.checked
    /\ frame' = n.frame
    /\ tmp' = n.tmp
    /\ scratch' = n.scratch
    /\ child' = n.child
    /\ procs' = n.procs
    /\ polled' = n.polled
    /\ made' = n.made
    /\ result' = n.result
    /\ UNCHANGED <<ttl, clock, cookie, endpoint, hostVars>>

\* AppError::into_response with the message of an Internal error as the body
into_response_verbose(e) ==
    IF e.kind = "Unauthorized"
    THEN [status |-> 401, body |-> [text |-> "Unauthorized", args |-> <<>>]]
    ELSE IF e.kind = "BadRequest"
    THEN [status |-> 400, body |-> [text |-> e.msg, args |-> e.args]]
    ELSE IF e.kind = "Internal"
    THEN [status |-> 500, body |-> [text |-> e.msg, args |-> e.args]]
    ELSE IF e.kind = "Ok"
    THEN [status |-> 200, body |-> [text |-> e.msg, args |-> e.args]]
    ELSE NoResponse

\* AppError::into_response (error.rs 12-23): the status and the body the
\* client receives; the body of a BadRequest is its message, the body of an
\* Internal error is fixed and its message goes to the log.  A handler that
\* was dropped sends nothing
into_response(e) ==
    IF e.kind = "Unauthorized"
    THEN [status |-> 401, body |-> [text |-> "Unauthorized", args |-> <<>>]]
    ELSE IF e.kind = "BadRequest"
    THEN [status |-> 400, body |-> [text |-> e.msg, args |-> e.args]]
    ELSE IF e.kind = "Internal"
    THEN [status |-> 500, body |-> [text |-> "Internal Server Error", args |-> <<>>]]
    ELSE IF e.kind = "Ok"
    THEN [status |-> 200, body |-> [text |-> e.msg, args |-> e.args]]
    ELSE NoResponse

\* what the handler returned, and the response made of it
Responded(res) ==
    [kind |-> res.kind, msg |-> res.msg, args |-> res.args,
     response |-> into_response(res)]

\* the handler returns with its TempDir turned into a plain path, which
\* nothing removes
ReturnKeepingDir(s, res) ==
    [s EXCEPT !.frame = [Frame0 EXCEPT !.pc = "done", !.field = s.frame.field,
                                       !.cur = s.frame.cur],
              !.result = Responded(res), !.child = NoChild]

\* the handler answers and goes on reading the fields of the request
ReturnListening(s, res) ==
    [s EXCEPT !.frame.pc = "next_field", !.result = Responded(res), !.child = NoChild]

\* the handler returns (or its future is dropped): its locals are dropped,
\* among them the TempDir, which removes the directory, and a child still
\* running, which is killed (kill_on_drop).  The field in hand and the count
\* of its bytes stay on record, as the error message is built from them
Return(s, res) ==
    [s EXCEPT !.frame = [Frame0 EXCEPT !.pc = "done", !.field = s.frame.field,
                                       !.cur = s.frame.cur],
              !.result = Responded(res), !.tmp = FALSE, !.scratch = {},
              !.child = NoChild]

\* AppState::authed_username, with the token accepted unverified
authed_username_unverified(ck, now) ==
    IF ck = NoCookie THEN Rejected("absent")
    ELSE [ok |-> TRUE, u |-> ck.u, exp_unix |-> 0, stage |-> "ok"]

\* AppState::authed_username with a session kept on the server: only the
\* cookie handed out last, and not yet logged out, is accepted
authed_username_current(ck, now) ==
    IF ck = NoCookie THEN Rejected("absent")
    ELSE IF ck # cookie THEN Rejected("revoked")
    ELSE verify(Key, ck.token, now)

\* AppState::authed_username: no cookie, or verify of the cookie's value
authed_username(ck, now) ==
    IF ck = NoCookie THEN Rejected("absent") ELSE verify(Key, ck.token, now)

\* npages 35-42, merge 105-115: require_auth; the multipart extractor's
\* result; TempDir::new.  fault names the operation that fails, if any
BeginStep(s, ck, now, fault) ==
    LET auth == authed_username(ck, now)
        s1 == [s EXCEPT !.checked = IF ck = NoCookie THEN NoCheck
                                    ELSE [token |-> ck.token, at |-> now, res |-> auth]]
    IN  IF ~auth.ok THEN Return(s1, Unauthorized)
        ELSE IF fault = "multipart"
        THEN Return(s1, BadRequest("Error parsing multipart/form-data request", <<>>))
        ELSE IF fault = "tempdir" THEN Return(s1, Internal("TempDir::new", <<>>))
        ELSE [s1 EXCEPT !.tmp = TRUE, !.frame.pc = "next_field"]

\* an entry of the log of invocations: the command, how it ended ("running"
\* until then), the page count read from its output (-1: none), and the
\* processes of its tree that are still running
Invocation(tool, stage, args, outcome, alive) ==
    [tool |-> tool, stage |-> stage, args |-> args, outcome |-> outcome,
     pages |-> -1, alive |-> alive]

\* the child of the latest invocation is no longer awaited
Ended(s, outcome, pages, alive) ==
    [s EXCEPT !.procs[Len(s.procs)].outcome = outcome,
              !.procs[Len(s.procs)].pages = pages,
              !.procs[Len(s.procs)].alive = alive,
              !.child = NoChild]

\* the Child is dropped while the process runs: kill_on_drop(true) kills the
\* process that was spawned; a process that one has started itself (helper)
\* is not signalled
Kill(s, outcome, helper) ==
    IF s.child = NoChild THEN s
    ELSE Ended(s, outcome, -1, IF helper THEN {"helper"} ELSE {})

\* a tool that cannot be started is started a second time
SpawnRetrying(s, tool, stage, doc, args, fault) ==
    LET tried == IF fault = "spawn"
                 THEN Append(s.procs, Invocation(tool, stage, args, "nostart", {}))
                 ELSE s.procs
    IN  [s EXCEPT !.procs = Append(tried, Invocation(tool, stage, args, "running", {"child"})),
                  !.child = [tool |-> tool, stage |-> stage, doc |-> doc, args |-> args],
                  !.frame.pc = "wait"]

\* cmd.spawn() in output_with_timeout; the handler then awaits the child
Spawn(s, tool, stage, doc, args, fault) ==
    IF fault = "spawn"
    THEN Return([s EXCEPT !.procs = Append(@, Invocation(tool, stage, args, "nostart", {}))],
                Internal("Failed to start {what}", <<tool>>))
    ELSE [s EXCEPT !.procs = Append(@, Invocation(tool, stage, args, "running", {"child"})),
                   !.child = [tool |-> tool, stage |-> stage, doc |-> doc, args |-> args],
                   !.frame.pc = "wait"]

\* merge 125-135
QualityStep(s, text) ==
    LET fld == [NoField EXCEPT !.name = <<"quality">>, !.text = text]
        q == ParseU8(Trim(text))
    IN  IF ~q.ok THEN Return([s EXCEPT !.frame.field = fld, !.polled = TRUE],
                             BadRequest("Invalid quality", <<>>))
        ELSE [s EXCEPT !.frame.quality = q.v, !.polled = TRUE]

\* merge 136-143
LinearizeStep(s, text) ==
    [s EXCEPT !.frame.linearize = parse_bool_loose(text), !.polled = TRUE]

\* merge 144-152
LayoutStep(s, lay) ==
    [s EXCEPT !.frame.layout_json = lay, !.polled = TRUE]

\* field.text() fails on one of the three control fields
TextErrorStep(s, name) ==
    Return([s EXCEPT !.frame.field = [NoField EXCEPT !.name = name], !.polled = TRUE],
           BadRequest("multipart error", <<>>))

\* multipart.next_field() fails
StreamErrorStep(s) ==
    Return([s EXCEPT !.polled = TRUE], BadRequest("multipart error", <<>>))

\* File::create in write_multipart_field_to_file
CreateStep(s, fld, path, fault) ==
    IF fault = "create" THEN Return([s EXCEPT !.frame.field = fld], Internal("File::create", <<>>))
    ELSE [s EXCEPT !.frame.field = fld,
                   !.frame.cur = [path |-> path, written |-> 0, size |-> 0,
                                  head |-> <<>>, chunks |-> 0],
                   !.frame.pc = "chunk",
                   !.scratch = @ \cup {path},
                   !.made = @ + 1]

\* merge 179-188 with the counts compared by > in place of >=
TooManyAbove(legacy, nlegacy, nids) ==
    \/ legacy /\ nlegacy > MAX_PDFS
    \/ nids > MAX_PDFS /\ ~legacy

\* merge 179-188: the two count checks
TooMany(legacy, nlegacy, nids) ==
    \/ legacy /\ nlegacy >= MAX_PDFS
    \/ nids >= MAX_PDFS /\ ~legacy

\* merge 154-191: a field that is none of quality, linearize, layout
MergeFileStep(s0, name, ct, fault) ==
    LET s == [s0 EXCEPT !.polled = TRUE]
        content_type == Essence(ct)
        fld == [NoField EXCEPT !.name = name, !.declared = ct,
                               !.content_type = content_type]
        legacy == ~HasFilePrefix(name)
        nlegacy == Len(s.frame.input_paths_legacy)
        nids == Cardinality(DOMAIN s.frame.inputs_by_id)
    IN  IF WrongContentType(content_type)
        THEN Return([s EXCEPT !.frame.field = fld],
                    BadRequest("Only PDF files are allowed (got {} for {})", content_type))
        ELSE IF ~HasFilePrefix(name) /\ name # <<"files">>
        THEN Return([s EXCEPT !.frame.field = fld],
                    BadRequest("Unexpected form field: {}", name))
        ELSE IF TooMany(legacy, nlegacy, nids)
        THEN Return([s EXCEPT !.frame.field = fld],
                    BadRequest("Too many PDFs (max {})", <<MAX_PDFS>>))
        ELSE CreateStep(s, fld,
                        IF legacy THEN NewPath(s.scratch, "in", "legacy", "")
                        ELSE NewPath(s.scratch, "in", "id", DocIdOf(name)),
                        fault)

\* npages 51-69: other fields are skipped, the first "file" field is taken
NPagesFileStep(s0, name, ct, fault) ==
    LET s == [s0 EXCEPT !.polled = TRUE]
        content_type == Essence(ct)
        fld == [NoField EXCEPT !.name = name, !.declared = ct,
                               !.content_type = content_type]
    IN  IF name # <<"file">> THEN s
        ELSE IF WrongContentType(content_type)
        THEN Return([s EXCEPT !.frame.field = fld],
                    BadRequest("Only PDF files are allowed (got {} for {})", content_type))
        ELSE CreateStep(s, fld, NPagesPath, fault)

\* qpdf_show_npages_with_timeout 65-67: qpdf --show-npages <path>
SpawnShowNPages(s, stage, doc, path, fault) ==
    Spawn(s, "qpdf", stage, doc, Args(<<[path |-> path, page |-> 0]>>, NoPath, 0, 0),
          fault)

\* inputs_by_id.insert(doc_id, path).is_some(), taken as never so
ReplacesNothing(map, k) == FALSE

\* inputs_by_id.insert(doc_id, path).is_some(): the key was present
Replaces(map, k) == k \in DOMAIN map

\* input_paths_legacy.push(path), with the path put in front
PushFront(v, x) == <<x>> \o v

\* input_paths_legacy.push(path)
Push(v, x) == Append(v, x)

\* merge 192-211, npages 70-91: the field has been written to its file
AfterWrite(s, fault) ==
    LET f == s.frame.cur
        legacy == ~HasFilePrefix(s.frame.field.name)
        doc_id == DocIdOf(s.frame.field.name)
    IN  IF f.written > MAX_FILE_BYTES
        THEN Return(s, BadRequest("{} is too large (max {} MB)",
                                  <<MAX_FILE_BYTES \div (1024 * 1024)>>))
        ELSE IF fault = "open" THEN Return(s, Internal("File::open", <<>>))
        ELSE IF ~looks_like_pdf(f)
        THEN Return(s, BadRequest("{} does not look like a PDF", <<>>))
        ELSE IF endpoint = "npages"
        THEN SpawnShowNPages([s EXCEPT !.frame.pdf_path = f.path], "npages", "",
                             f.path, fault)
        ELSE IF legacy
        THEN [s EXCEPT !.frame.input_paths_legacy = Push(@, f.path),
                       !.frame.field = NoField, !.frame.cur = NoFile,
                       !.frame.pc = "next_field"]
        ELSE IF Replaces(s.frame.inputs_by_id, doc_id)
        THEN Return([s EXCEPT !.frame.inputs_by_id = (doc_id :> f.path) @@ @],
                    BadRequest("Duplicate document id: {}", <<doc_id>>))
        ELSE [s EXCEPT !.frame.inputs_by_id = (doc_id :> f.path) @@ @,
                       !.frame.field = NoField, !.frame.cur = NoFile,
                       !.frame.pc = "next_field"]

\* write_multipart_field_to_file 30-42: field.chunk() delivers a chunk
ChunkStep(s, c, fault) ==
    LET w == WriteChunk(s.frame.cur, c) IN
    IF w.returned THEN AfterWrite([s EXCEPT !.frame.cur = w.file], fault)
    ELSE IF fault = "write"
    THEN Return([s EXCEPT !.frame.cur.written = w.file.written],
                Internal("write_all", <<>>))
    ELSE [s EXCEPT !.frame.cur = w.file]

\* field.chunk() fails
ChunkErrorStep(s) == Return(s, BadRequest("multipart error", <<>>))

\* write_multipart_field_to_file 43-46: the field's body has ended; flush
FieldEndStep(s, fault) ==
    IF fault = "flush" THEN Return(s, Internal("flush", <<>>))
    ELSE AfterWrite(s, fault)

\* ------------------------------------------------------------------------
\* After the last field: validation and the external tools
\* ------------------------------------------------------------------------
MergePageRef(doc, page) == [doc |-> doc, page |-> page]

\* quality_to_gs_params with the two values cut to integers, not rounded
quality_to_gs_params_cut(quality) ==
    LET q == IF quality < 10 THEN 10 ELSE IF quality > 100 THEN 100 ELSE quality
    IN  [dpi |-> (72 * 90 + (q - 10) * (300 - 72)) \div 90,
         jpegq |-> (20 * 90 + (q - 10) * (95 - 20)) \div 90]

\* quality_to_gs_params: (dpi, jpegq), rounded to the nearest integer
quality_to_gs_params(quality) ==
    LET q == IF quality < 10 THEN 10 ELSE IF quality > 100 THEN 100 ELSE quality
    IN  [dpi |-> (2 * (72 * 90 + (q - 10) * (300 - 72)) + 90) \div 180,
         jpegq |-> (2 * (20 * 90 + (q - 10) * (95 - 20)) + 90) \div 180]

\* merge_with_ghostscript_to_file_with_timeout 155-181: gs ... -sOutputFile=
\* out_<uuid>.pdf <inputs>
SpawnGs(s, input_paths, fault) ==
    LET p == quality_to_gs_params(s.frame.quality)
        out == NewPath(s.scratch, "out", "", "")
    IN  Spawn(s, "ghostscript", "gs", "",
              Args([i \in 1..Len(input_paths) |-> [path |-> input_paths[i], page |-> 0]],
                   out, p.dpi, p.jpegq),
              fault)

\* the (path, page) pairs with the references to the first document of the
\* plan put together in front
PageArgsByDoc(layout, inputs_by_id) ==
    LET first(r) == r.doc = layout[1].doc
        other(r) == r.doc # layout[1].doc
        grouped == SelectSeq(layout, first) \o SelectSeq(layout, other)
    IN  [i \in 1..Len(layout) |->
            [path |-> inputs_by_id[grouped[i].doc], page |-> grouped[i].page]]

\* qpdf_assemble_pages_with_timeout 102-108: for r in layout, the path of
\* r.doc and r.page
PageArgs(layout, inputs_by_id) ==
    [i \in 1..Len(layout) |->
        [path |-> inputs_by_id[layout[i].doc], page |-> layout[i].page]]

\* the assembly given the first page of every legacy document after the
\* pages of the plan
SpawnAssembleWithLegacy(s, fault) ==
    LET legacy == s.frame.input_paths_legacy IN
    Spawn(s, "qpdf", "assemble", "",
          Args(PageArgs(s.frame.layout, s.frame.inputs_by_id)
                   \o [i \in 1..Len(legacy) |-> [path |-> legacy[i], page |-> 1]],
               NewPath(s.scratch, "assembled", "", ""), 0, 0),
          fault)

\* qpdf_assemble_pages_with_timeout 96-109: qpdf --empty --pages
\* (<path> <page>)* -- assembled_<uuid>.pdf
SpawnAssemble(s, fault) ==
    LET layout == s.frame.layout
        known(i) == layout[i].doc \in DOMAIN s.frame.inputs_by_id
    IN  IF \E i \in 1..Len(layout) : ~known(i)
        THEN Return(s, BadRequest("Unknown doc id: {}",
                 <<layout[CHOOSE i \in 1..Len(layout) :
                       ~known(i) /\ \A j \in 1..(i - 1) : known(j)].doc>>))
        ELSE Spawn(s, "qpdf", "assemble", "",
                   Args(PageArgs(layout, s.frame.inputs_by_id),
                        NewPath(s.scratch, "assembled", "", ""), 0, 0),
                   fault)

\* the recompression run once more where the linearization is due
RecompressAgain(s, input_path, fault) == SpawnGs(s, <<input_path>>, fault)

\* qpdf_linearize_file_with_timeout 132-137: qpdf --linearize <in>
\* lin_out_<uuid>.pdf
SpawnLinearize(s, input_path, fault) ==
    Spawn(s, "qpdf", "linearize", "",
          Args(<<[path |-> input_path, page |-> 0]>>,
               NewPath(s.scratch, "lin_out", "", ""), 0, 0),
          fault)

\* merge 242-255 with page 0 let through
BadRefAboveOnly(r, pages_by_doc) ==
    \/ r.doc \notin DOMAIN pages_by_doc
    \/ r.page > pages_by_doc[r.doc]

\* merge 242-255: the first reference that names an unknown document, or a
\* page outside 1..max_pages
BadRef(r, pages_by_doc) ==
    \/ r.doc \notin DOMAIN pages_by_doc
    \/ r.page = 0
    \/ r.page > pages_by_doc[r.doc]

ValidateLayout(s, fault) ==
    LET layout == s.frame.layout
        pages == s.frame.pages_by_doc
    IN  IF \E i \in 1..Len(layout) : BadRef(layout[i], pages)
        THEN LET i == CHOOSE k \in 1..Len(layout) :
                          /\ BadRef(layout[k], pages)
                          /\ \A j \in 1..(k - 1) : ~BadRef(layout[j], pages)
                 r == layout[i]
             IN  IF r.doc \notin DOMAIN pages
                 THEN Return(s, BadRequest("Layout references unknown doc id: {}",
                                           <<r.doc>>))
                 ELSE Return(s, BadRequest("Invalid page {} for doc {} (max {})",
                                           <<[page |-> r.page, doc |-> r.doc,
                                              max |-> pages[r.doc]]>>))
        ELSE SpawnAssemble(s, fault)

\* merge 236-240: the next document of the map, in the map's iteration
\* order, or the validation when every document has its page count
CountStep(s, doc, fault) ==
    IF DOMAIN s.frame.inputs_by_id \subseteq DOMAIN s.frame.pages_by_doc
    THEN ValidateLayout(s, fault)
    ELSE SpawnShowNPages(s, "count", doc, s.frame.inputs_by_id[doc], fault)

Uncounted(s) == DOMAIN s.frame.inputs_by_id \ DOMAIN s.frame.pages_by_doc

\* merge 218 with the lower end of the range left out
QualityUpTo100(quality) == quality <= 100

\* merge 218: (10..=100).contains(&quality)
QualityInRange(quality) == quality >= 10 /\ quality <= 100

\* merge 214-271: next_field has returned None
MergeEndStep(s0, doc, fault) ==
    LET s == [s0 EXCEPT !.polled = TRUE]
        f == s.frame
    IN  IF Len(f.input_paths_legacy) = 0 /\ DOMAIN f.inputs_by_id = {}
        THEN Return(s, BadRequest("No PDF files uploaded", <<>>))
        ELSE IF ~QualityInRange(f.quality)
        THEN Return(s, BadRequest("Quality must be between 10 and 100", <<>>))
        ELSE IF f.layout_json.present
        THEN IF ~f.layout_json.valid
             THEN Return(s, BadRequest("Invalid layout", <<>>))
             ELSE IF Len(f.layout_json.refs) = 0
             THEN Return(s, BadRequest("Layout is empty", <<>>))
             ELSE IF DOMAIN f.inputs_by_id = {}
             THEN Return(s, BadRequest("Layout provided but no file_* parts found", <<>>))
             ELSE CountStep([s EXCEPT !.frame.layout = f.layout_json.refs], doc, fault)
        ELSE SpawnGs(s, f.input_paths_legacy, fault)

\* npages 87-89: the stream ended with no "file" field
NPagesEndStep(s) ==
    Return([s EXCEPT !.polled = TRUE], BadRequest("Missing file", <<>>))

\* a text in UTF-8: chars characters of width bytes each, followed by
\* ellipsis bytes that were appended to it
Utf8(width, chars) == [width |-> width, chars |-> chars, ellipsis |-> 0]
Bytes(t) == t.width * t.chars + t.ellipsis

\* truncate_for_log 215
MAX == 512

\* truncate_for_log 214-228: a text of more than MAX bytes is cut before the
\* last character that starts at a byte index of MAX or less (character k
\* starts at byte k * width), and an ellipsis of three bytes is appended
truncate_for_log(t) ==
    IF Bytes(t) <= MAX THEN t
    ELSE LET last == IF (t.chars - 1) * t.width <= MAX THEN t.chars - 1
                     ELSE MAX \div t.width
         IN  [width |-> t.width, chars |-> last, ellipsis |-> 3]

\* output_with_timeout 206-211 and what each caller does with the output.
\* outcome: "exit0", "exit1", "timeout" or "waiterr"; pages: the first token
\* of stdout that parses as usize, or -1 when there is none; stderr: what
\* the tool wrote to stderr; helper: the child has started a process of its
\* own that still runs; doc: the document the page-counting loop visits next
ExitStep(s, outcome, pages, stderr, helper, doc, fault) ==
    LET c == s.child
        counts == c.stage \in {"npages", "count"}
        s1 == Ended(s, outcome, IF counts /\ outcome = "exit0" THEN pages ELSE -1, {})
    IN  IF outcome = "timeout"
        THEN Return(Kill(s, "timeout", helper),
                    Internal("{what} timed out after {}s",
                             <<[what |-> c.tool, secs |-> EXTERNAL_PROCESS_TIMEOUT_SECS]>>))
        ELSE IF outcome = "waiterr" THEN Return(s1, Internal("{what} failed: {e}", <<c.tool>>))
        ELSE IF outcome = "exit1"
        THEN Return(s1, Internal("{what} failed: {stderr}", <<c.tool, stderr>>))
        ELSE IF counts /\ pages < 0
        THEN Return(s1, Internal("Failed to parse qpdf output (stdout={}, stderr={})",
                                 <<truncate_for_log(stderr)>>))
        ELSE IF c.stage = "npages" THEN Return(s1, OkJson(pages))
        ELSE IF c.stage = "count"
        THEN CountStep([s1 EXCEPT !.frame.pages_by_doc = (c.doc :> pages) @@ @],
                       doc, fault)
        ELSE LET s2 == [s1 EXCEPT !.scratch = @ \cup {c.args.out}] IN
             IF c.stage = "assemble" THEN SpawnGs(s2, <<c.args.out>>, fault)
             ELSE IF fault = "read" THEN Return(s2, Internal("read", <<>>))
             ELSE IF c.stage = "gs" /\ s.frame.linearize
             THEN LET lin_in == NewPath(s2.scratch, "lin_in", "", "") IN
                  SpawnLinearize([s2 EXCEPT !.scratch = @ \cup {lin_in}], lin_in,
                                 fault)
             ELSE Return(s2, OkPdf(c.args.out))

\* ------------------------------------------------------------------------
\* One request to /api/merge or /api/npages: what the client can send and
\* what the host can do to the handler
\* ------------------------------------------------------------------------
Admin == <<97, 100>>

\* the cookie of a request: none; the token issued at time 0; that token
\* with its last signature character changed; a token signed with another
\* key; an empty value
RequestCookies ==
    LET t == issue(Key, TicksPerSec * MaxTtlSecs, Admin, 0) IN
    {NoCookie} \cup
    { [token |-> v, u |-> Admin, at |-> 0] :
        v \in { t,
                ReplaceAt(t, Len(t), B64Char((B64Val(t[Len(t)]) + 4) % 64)),
                issue(OtherKey, TicksPerSec * MaxTtlSecs, Admin, 0),
                <<>> } }

QualityTexts ==
    { <<"9">>, <<"1", "0">>, <<" ", "1", "0", "0">>, <<"1", "0", "1">>,
      <<"2", "5", "6">>, <<"-", "1">>, <<"h", "i">>, <<>> }

LinearizeTexts == { <<"o", "n">>, <<" ", "T", "r", "u", "e">>, <<"0">>, <<"n", "o">> }

Layouts ==
    { [present |-> TRUE, valid |-> FALSE, refs |-> <<>>],
      [present |-> TRUE, valid |-> TRUE, refs |-> <<>>],
      [present |-> TRUE, valid |-> TRUE,
       refs |-> <<MergePageRef("a", 2), MergePageRef("b", 1), MergePageRef("a", 1)>>],
      [present |-> TRUE, valid |-> TRUE,
       refs |-> <<MergePageRef("a", 1), MergePageRef("c", 1)>>],
      [present |-> TRUE, valid |-> TRUE, refs |-> <<MergePageRef("b", 0)>>] }

ControlNames == { <<"quality">>, <<"linearize">>, <<"layout">> }

FileNames ==
    { <<"files">>, <<"file_", "a">>, <<"file_", "b">>, <<"file">>, <<"upload">> }

ContentTypes ==
    { NoContentType,
      ContentType(<<>>),
      ContentType(<<"application/pdf">>),
      ContentType(<<"application/pdf", " ", ";", " ", "charset=binary">>),
      ContentType(<<"text/plain">>),
      ContentType(<<"text/plain", ";", "application/pdf">>) }

\* the content types of the requests that carry control fields
FewContentTypes ==
    { NoContentType, ContentType(<<"application/pdf">>), ContentType(<<"text/plain">>) }

\* the chunks a field's body arrives in
Pieces ==
    { Chunk(Magic, 5),
      Chunk(<<"%", "P", "D">>, 3),
      Chunk(<<"F", "-">>, 2),
      Chunk(<<"<", "h", "t", "m", "l">>, 9),
      Chunk(Magic, MAX_FILE_BYTES) }

\* bodies that arrive in one chunk: a PDF, a page of HTML, three bytes, a
\* PDF of one byte more than the cap
WholeFiles ==
    { Chunk(Magic, 2048),
      Chunk(<<"<", "h", "t", "m", "l">>, 9),
      Chunk(<<"%", "P", "D">>, 3),
      Chunk(Magic, MAX_FILE_BYTES + 1) }

Outcomes == {"exit0", "exit1", "timeout", "waiterr"}

\* the page counts qpdf prints; -1: no token of stdout parses as usize
StdoutPages == {-1, 1, 2}

\* what a tool writes to stderr
\* nothing; one line of 47 characters; 4096 characters of one byte; 200
\* characters of three bytes each
Stderrs == {Utf8(1, 0), Utf8(1, 47), Utf8(1, 4096), Utf8(3, 200)}

\* a loop that takes any uploaded document next, counted before or not
NextDocsAny(s, counted) ==
    IF DOMAIN s.frame.inputs_by_id = {} THEN {""} ELSE DOMAIN s.frame.inputs_by_id

\* the documents the page-counting loop can visit next, counted being the
\* one whose count has just arrived
NextDocs(s, counted) ==
    LET u == Uncounted(s) \ counted IN IF u = {} THEN {""} ELSE u

Init ==
    /\ ttl = TicksPerSec * MaxTtlSecs
    /\ clock \in {ttl - 1, ttl}
    /\ cookie \in RequestCookies
    /\ checked = NoCheck
    /\ endpoint \in {"merge", "npages"}
    /\ frame = Frame0
    /\ tmp = FALSE
    /\ scratch = {}
    /\ child = NoChild
    /\ procs = <<>>
    /\ polled = FALSE
    /\ made = 0
    /\ result = NoResult
    /\ requests = <<>>
    /\ disk = {}
    /\ issued = {}

Begin ==
    /\ frame.pc = "start"
    /\ \E fault \in {"none", "multipart", "tempdir"} :
          Set(BeginStep(St, cookie, clock, fault))

QualityField ==
    /\ frame.pc = "next_field" /\ endpoint = "merge"
    /\ \E text \in QualityTexts : Set(QualityStep(St, text))

LinearizeField ==
    /\ frame.pc = "next_field" /\ endpoint = "merge"
    /\ \E text \in LinearizeTexts : Set(LinearizeStep(St, text))

LayoutField ==
    /\ frame.pc = "next_field" /\ endpoint = "merge"
    /\ \E lay \in Layouts : Set(LayoutStep(St, lay))

TextError ==
    /\ frame.pc = "next_field" /\ endpoint = "merge"
    /\ \E name \in ControlNames : Set(TextErrorStep(St, name))

FileField(types) ==
    /\ frame.pc = "next_field"
    /\ \E name \in FileNames, ct \in types, fault \in {"none", "create"} :
          Set(IF endpoint = "merge" THEN MergeFileStep(St, name, ct, fault)
              ELSE NPagesFileStep(St, name, ct, fault))

FieldChunk(pieces, max) ==
    /\ frame.pc = "chunk"
    /\ frame.cur.chunks < max
    /\ \E c \in pieces, fault \in {"none", "write", "open", "spawn"} :
          Set(ChunkStep(St, c, fault))

ChunkError ==
    /\ frame.pc = "chunk"
    /\ Set(ChunkErrorStep(St))

FieldEnd ==
    /\ frame.pc = "chunk"
    /\ \E fault \in {"none", "flush", "open", "spawn"} :
          Set(FieldEndStep(St, fault))

StreamEnd ==
    /\ frame.pc = "next_field"
    /\ \E doc \in NextDocs(St, {}), fault \in {"none", "spawn"} :
          Set(IF endpoint = "merge" THEN MergeEndStep(St, doc, fault)
              ELSE NPagesEndStep(St))

StreamError ==
    /\ frame.pc = "next_field"
    /\ Set(StreamErrorStep(St))

ChildExit ==
    /\ frame.pc = "wait"
    /\ \E outcome \in Outcomes, pages \in StdoutPages, stderr \in Stderrs,
          helper \in BOOLEAN, doc \in NextDocs(St, {child.doc}),
          fault \in {"none", "read", "spawn"} :
          Set(ExitStep(St, outcome, pages, stderr, helper, doc, fault))

\* the client goes away: the handler's future is dropped at an await
Cancel ==
    /\ frame.pc \in {"next_field", "chunk", "wait"}
    /\ \E helper \in BOOLEAN : Set(Return(Kill(St, "killed", helper), Cancelled))

\* requests with every kind of field, each file body arriving in one chunk
Next ==
    \/ Begin
    \/ QualityField
    \/ LinearizeField
    \/ LayoutField
    \/ TextError
    \/ FileField(FewContentTypes)
    \/ FieldChunk(WholeFiles, 1)
    \/ ChunkError
    \/ FieldEnd
    \/ StreamEnd
    \/ StreamError
    \/ ChildExit
    \/ Cancel

Spec == Init /\ [][Next]_vars

\* requests of file fields only, their bodies arriving chunk by chunk
NextUpload ==
    \/ Begin
    \/ FileField(ContentTypes)
    \/ FieldChunk(Pieces, MaxChunks)
    \/ ChunkError
    \/ FieldEnd
    \/ StreamEnd
    \/ StreamError
    \/ ChildExit
    \/ Cancel

SpecUpload == Init /\ [][NextUpload]_vars

\* ------------------------------------------------------------------------
\* Properties of one request
\* ------------------------------------------------------------------------
\* the request carries the token issued at time 0, unaltered, and arrives
\* before that token's expiry
SessionValid ==
    /\ cookie # NoCookie
    /\ cookie.token = issue(Key, ttl, Admin, 0)
    /\ clock < ttl

\* C4: a request to merge or npages whose session cookie is absent, invalid
\* or expired gets Unauthorized, and for it no scratch directory is created,
\* no multipart field is read, no file is made and no subprocess is started.
C4_AccessGate ==
    (frame.pc # "start" /\ ~SessionValid) =>
        /\ frame.pc = "done"
        /\ result.kind = "Unauthorized"
        /\ ~tmp /\ scratch = {} /\ made = 0
        /\ ~polled
        /\ procs = <<>> /\ child = NoChild

\* the token was issued by this signer and is unaltered, but has expired
C4_Witness ==
    /\ endpoint = "merge"
    /\ cookie.token = issue(Key, ttl, Admin, 0)
    /\ clock = ttl
    /\ frame.pc = "done"
    /\ result.kind = "Unauthorized"
    /\ ~polled /\ procs = <<>>

\* C5: in a merge request no subprocess is started while the effective
\* quality is below 10 or above 100; when the fields end with such a quality
\* the request is rejected with BadRequest, no subprocess having been
\* started; a quality field that does not parse as an integer of 0..255 ends
\* the request with BadRequest at once.
C5_QualityGate ==
    [][ /\ (endpoint = "merge" /\ Len(procs') > Len(procs)) =>
               frame.quality \in 10..100
        /\ (endpoint = "merge" /\ StreamEnd /\ frame.quality \notin 10..100) =>
               /\ frame'.pc = "done"
               /\ result'.kind = "BadRequest"
               /\ procs' = <<>>
        /\ (QualityField /\ frame'.pc = "done") =>
               /\ result'.kind = "BadRequest"
               /\ result'.msg = "Invalid quality"
               /\ procs' = <<>>
        /\ (QualityField /\ frame'.pc # "done") => frame'.quality \in 0..255
      ]_vars

\* files were accepted, the quality was 9, and the request was rejected
\* before any tool ran
C5_Witness ==
    /\ frame.pc = "done"
    /\ result.kind = "BadRequest"
    /\ result.msg = "Quality must be between 10 and 100"
    /\ made > 0
    /\ procs = <<>>

\* C6: in every state of a merge request the accepted documents, legacy
\* plus id-keyed, number at most MAX_PDFS.
C6_TotalCap ==
    Len(frame.input_paths_legacy) + Cardinality(DOMAIN frame.inputs_by_id) <= MAX_PDFS

\* C7: legacy fields are accepted up to the tenth: the request is rejected
\* for its count only when a field arrives with MAX_PDFS documents of its
\* style already accepted, the rejection is a BadRequest and makes no file;
\* a "files" field that arrives after ten accepted ones ends the request
\* with BadRequest, and is never written or accepted.
C7_LegacyBoundary ==
    [][ /\ Len(frame'.input_paths_legacy) <= MAX_PDFS
        /\ (frame'.pc = "chunk" /\ frame'.field.name = <<"files">>) =>
               Len(frame'.input_paths_legacy) < MAX_PDFS
        /\ (frame.pc = "next_field" /\ Len(frame.input_paths_legacy) = MAX_PDFS
              /\ frame'.field.name = <<"files">>) =>
               /\ frame'.pc = "done"
               /\ result'.kind = "BadRequest"
               /\ made' = made
        /\ (frame.pc = "next_field" /\ result'.msg = "Too many PDFs (max {})") =>
               /\ result'.kind = "BadRequest"
               /\ frame'.pc = "done"
               /\ made' = made /\ frame'.cur = NoFile
               /\ \/ Len(frame.input_paths_legacy) = MAX_PDFS
                     /\ frame'.field.name = <<"files">>
                  \/ Cardinality(DOMAIN frame.inputs_by_id) = MAX_PDFS
      ]_vars

\* ten "files" fields were written and accepted, the eleventh was rejected
C7_Witness ==
    /\ frame.pc = "done"
    /\ result.msg = "Too many PDFs (max {})"
    /\ frame.field.name = <<"files">>
    /\ made = MAX_PDFS

\* the documents a request has accepted
Accepted(f) ==
    { f.input_paths_legacy[i] : i \in 1..Len(f.input_paths_legacy) }
        \cup { f.inputs_by_id[d] : d \in DOMAIN f.inputs_by_id }
        \cup ({f.pdf_path} \ {NoPath})

\* the file in hand holds at least five bytes and they are %PDF-
StartsWithMagic(f) == f.size >= 5 /\ f.head = <<"%", "P", "D", "F", "-">>

\* C8: in merge and npages a file is accepted only if its first five bytes
\* are %PDF-; when a field ends whose file does not start so, whatever its
\* declared type, the request ends with an error (BadRequest unless the
\* scratch file could not be flushed or opened) and no subprocess is
\* started; the files passed to a subprocess are accepted ones or outputs
\* of an earlier tool.
C8_MagicCheck ==
    [][ /\ (Accepted(frame') \ Accepted(frame) # {}) =>
               /\ StartsWithMagic(frame.cur)
               /\ Accepted(frame') \ Accepted(frame) = {frame.cur.path}
        /\ (FieldEnd /\ ~StartsWithMagic(frame.cur)) =>
               /\ frame'.pc = "done"
               /\ procs' = procs
               /\ \/ result'.kind = "BadRequest"
                  \/ result'.kind = "Internal" /\ result'.msg \in {"flush", "File::open"}
        /\ (Len(procs') > Len(procs)) =>
               LET args == procs'[Len(procs')].args IN
               \A i \in 1..Len(args.inputs) :
                   \/ args.inputs[i].path \in Accepted(frame)
                   \/ args.inputs[i].path = frame.cur.path /\ StartsWithMagic(frame.cur)
                   \/ args.inputs[i].path.kind \in {"assembled", "out", "lin_in"}
      ]_vars

\* a file of three bytes declared as application/pdf was rejected
C8_Witness ==
    /\ frame.pc = "done"
    /\ result.kind = "BadRequest"
    /\ result.msg = "{} does not look like a PDF"
    /\ frame.field.declared = ContentType(<<"application/pdf">>)
    /\ frame.cur.size = 3
    /\ procs = <<>>

\* C9: the bytes written to a scratch file never exceed MAX_FILE_BYTES; a
\* field is still being streamed only while its running count is within the
\* cap, and the chunk that takes the count over the cap is not written and
\* ends the request with BadRequest "too large"; a count of exactly
\* MAX_FILE_BYTES is not rejected for size.
C9_ByteCap ==
    /\ frame.cur.size <= MAX_FILE_BYTES
    /\ frame.cur.size <= frame.cur.written
    /\ frame.pc = "chunk" =>
           frame.cur.written <= MAX_FILE_BYTES /\ frame.cur.size = frame.cur.written
    /\ frame.cur.written > MAX_FILE_BYTES =>
           /\ frame.pc = "done"
           /\ result.kind = "BadRequest"
           /\ result.msg = "{} is too large (max {} MB)"
    /\ result.msg = "{} is too large (max {} MB)" => frame.cur.written > MAX_FILE_BYTES

\* MAX_FILE_BYTES bytes were written, then a chunk of two bytes arrived
C9_Witness ==
    /\ frame.pc = "done"
    /\ result.msg = "{} is too large (max {} MB)"
    /\ frame.cur.size = MAX_FILE_BYTES
    /\ frame.cur.written = MAX_FILE_BYTES + 2
    /\ frame.cur.chunks = 2

\* the declared type is present, not empty, and its media type is another
\* than application/pdf
DeclaredOther(ct) == ct.present /\ ct.v # <<>> /\ ct.v[1] # "application/pdf"

\* C10: a file field is rejected for its declared content type exactly when
\* that type is present, non-empty and, parameters aside, not
\* application/pdf; the rejection is a BadRequest and comes before a file is
\* made for the field; a field with such a type is never written.
C10_DeclaredType ==
    [][ /\ (frame.pc = "next_field"
              /\ result'.msg = "Only PDF files are allowed (got {} for {})") =>
               /\ result'.kind = "BadRequest"
               /\ DeclaredOther(frame'.field.declared)
               /\ made' = made
               /\ frame'.cur = NoFile
        /\ (frame.pc = "next_field" /\ frame'.field # NoField
              /\ frame'.field.name \notin ControlNames
              /\ (endpoint = "npages" => frame'.field.name = <<"file">>)
              /\ DeclaredOther(frame'.field.declared)) =>
               result'.msg = "Only PDF files are allowed (got {} for {})"
        /\ frame'.pc = "chunk" => ~DeclaredOther(frame'.field.declared)
      ]_vars

\* a field declared text/plain;application/pdf was rejected with no file made
C10_Witness ==
    /\ frame.pc = "done"
    /\ result.msg = "Only PDF files are allowed (got {} for {})"
    /\ frame.field.declared = ContentType(<<"text/plain", ";", "application/pdf">>)
    /\ made = 0

\* C11: document ids are unique in a request: a step that leaves the request
\* going never changes the file an id maps to; when the field of an id that
\* is already present ends, the request ends with an error (BadRequest,
\* unless the scratch file could not be flushed or opened); and when the
\* first tool is started every file made for the request is an accepted
\* document, one per id.
C11_UniqueIds ==
    [][ /\ frame'.pc # "done" =>
               \A d \in DOMAIN frame.inputs_by_id :
                   /\ d \in DOMAIN frame'.inputs_by_id
                   /\ frame'.inputs_by_id[d] = frame.inputs_by_id[d]
        /\ (frame.pc = "chunk" /\ HasFilePrefix(frame.field.name)
              /\ DocIdOf(frame.field.name) \in DOMAIN frame.inputs_by_id
              /\ frame'.pc # "chunk") =>
               /\ frame'.pc = "done"
               /\ result'.kind \in {"BadRequest", "Internal", "Cancelled"}
        /\ (FieldEnd /\ HasFilePrefix(frame.field.name)
              /\ DocIdOf(frame.field.name) \in DOMAIN frame.inputs_by_id) =>
               \/ result'.kind = "BadRequest"
               \/ result'.kind = "Internal" /\ result'.msg \in {"flush", "File::open"}
        /\ (endpoint = "merge" /\ procs = <<>> /\ procs' # <<>>) =>
               made = Len(frame.input_paths_legacy)
                          + Cardinality(DOMAIN frame.inputs_by_id)
      ]_vars

\* a second file_a field, a valid PDF, ended the request
C11_Witness ==
    /\ frame.pc = "done"
    /\ result.kind = "BadRequest"
    /\ result.msg = "Duplicate document id: {}"
    /\ frame.field.name = <<"file_", "a">>
    /\ made = 2

\* the invocations of the log that counted the pages of the file at path
\* and printed a count
CountsOf(log, path) ==
    { k \in 1..Len(log) : /\ log[k].stage = "count"
                          /\ log[k].args.inputs[1].path = path
                          /\ log[k].outcome = "exit0" }

\* the latest invocation of the log, when the step has added one
Started(stage) ==
    /\ Len(procs') > Len(procs)
    /\ procs'[Len(procs')].stage = stage

\* C12: the assembly tool is started only when every reference of the plan
\* names an uploaded id-keyed document and a page between 1 and the count
\* qpdf printed for that document; the error for an unknown id is a
\* BadRequest naming an id of the plan that was not uploaded, the error for
\* a page is a BadRequest giving a reference of the plan whose page is 0 or
\* above the count printed for its document, and that count as the maximum;
\* neither error is followed by an assembly.
C12_PageRefsValidated ==
    [][ /\ Started("assemble") =>
               \A i \in 1..Len(frame.layout) :
                   LET r == frame.layout[i] IN
                   /\ r.doc \in DOMAIN frame.inputs_by_id
                   /\ r.page >= 1
                   /\ \E k \in CountsOf(procs', frame.inputs_by_id[r.doc]) :
                          r.page <= procs'[k].pages
        /\ result'.msg = "Layout references unknown doc id: {}" =>
               /\ result'.kind = "BadRequest"
               /\ result'.args[1] \notin DOMAIN frame.inputs_by_id
               /\ \E i \in 1..Len(frame.layout) : frame.layout[i].doc = result'.args[1]
               /\ \A k \in 1..Len(procs') : procs'[k].stage = "count"
        /\ result'.msg = "Invalid page {} for doc {} (max {})" =>
               LET a == result'.args[1] IN
               /\ result'.kind = "BadRequest"
               /\ a.doc \in DOMAIN frame.inputs_by_id
               /\ \E i \in 1..Len(frame.layout) :
                      frame.layout[i] = MergePageRef(a.doc, a.page)
               /\ a.page = 0 \/ a.page > a.max
               /\ \E k \in CountsOf(procs', frame.inputs_by_id[a.doc]) :
                      procs'[k].pages = a.max
               /\ \A k \in 1..Len(procs') : procs'[k].stage = "count"
      ]_vars

\* the plan asked for page 2 of a document of one page
C12_Witness ==
    /\ frame.pc = "done"
    /\ result.msg = "Invalid page {} for doc {} (max {})"
    /\ result.args[1].page = 2
    /\ result.args[1].max = 1
    /\ procs # <<>>

\* C13: the page list given to the assembly tool is the plan as received,
\* in its order: as long as the plan, its i-th pair being the scratch file
\* made for the i-th reference's document and the i-th reference's page.
C13_AssemblyOrder ==
    [][ Started("assemble") =>
            LET plan == frame.layout_json.refs
                pairs == procs'[Len(procs')].args.inputs
            IN  /\ Len(pairs) = Len(plan)
                /\ \A i \in 1..Len(plan) :
                       /\ pairs[i].path = frame.inputs_by_id[plan[i].doc]
                       /\ pairs[i].path.style = "id"
                       /\ pairs[i].path.n = plan[i].doc
                       /\ pairs[i].page = plan[i].page
      ]_vars

\* the plan a2, b1, a1 is being assembled
C13_Witness ==
    /\ frame.pc = "wait"
    /\ child.stage = "assemble"
    /\ Len(child.args.inputs) = 3
    /\ child.args.inputs[1].path.n = "a" /\ child.args.inputs[1].page = 2
    /\ child.args.inputs[2].path.n = "b" /\ child.args.inputs[2].page = 1
    /\ child.args.inputs[3].path.n = "a" /\ child.args.inputs[3].page = 1

\* C14: with no layout plan the recompression tool is given the accepted
\* legacy documents and nothing else, in the order their fields arrived:
\* its i-th input is the scratch file made for the i-th "files" field.
C14_LegacyOrder ==
    [][ (Started("gs") /\ ~frame.layout_json.present) =>
            LET inputs == procs'[Len(procs')].args.inputs IN
            /\ Len(inputs) = Len(frame.input_paths_legacy)
            /\ \A i \in 1..Len(inputs) :
                   /\ inputs[i].path = frame.input_paths_legacy[i]
                   /\ inputs[i].path.style = "legacy"
                   /\ inputs[i].path.gen = i - 1
      ]_vars

\* two "files" documents are recompressed in a request that also carried a
\* file_<id> field, a quality field and a linearize field
C14_Witness ==
    /\ frame.pc = "wait"
    /\ child.stage = "gs"
    /\ ~frame.layout_json.present
    /\ Len(child.args.inputs) = 2
    /\ DOMAIN frame.inputs_by_id # {}
    /\ frame.quality = 100
    /\ frame.linearize

\* the invocation that ran out of time is reported as an Internal error that
\* names the tool and the budget, and its child no longer runs
TimeoutReported(k) ==
    /\ frame.pc = "done"
    /\ result.kind = "Internal"
    /\ result.msg = "{what} timed out after {}s"
    /\ result.args[1] = [what |-> procs[k].tool, secs |-> EXTERNAL_PROCESS_TIMEOUT_SECS]
    /\ child = NoChild
    /\ "child" \notin procs[k].alive

\* C15: when a tool runs longer than the time budget the invocation returns
\* an Internal error naming the tool and the budget in seconds, and after
\* that neither the child nor any process the child started is running.
C15_TimeoutKill ==
    \A k \in 1..Len(procs) :
        procs[k].outcome = "timeout" => TimeoutReported(k) /\ procs[k].alive = {}

\* the part of C15 that is about the child alone
C15_ChildKilled ==
    \A k \in 1..Len(procs) : procs[k].outcome = "timeout" => TimeoutReported(k)

\* C16: scratch files exist only inside the request's directory, and when
\* the handling of a merge or npages request has ended, by a response, an
\* error or the client's disconnection, the directory and every file in it
\* are gone.
C16_ScratchCleanup ==
    /\ scratch # {} => tmp
    /\ frame.pc = "done" => ~tmp /\ scratch = {}
    /\ (frame.pc \notin {"start", "done"}) => tmp

\* the client went away while a tool was running on the uploaded files
C16_Witness ==
    /\ frame.pc = "done"
    /\ result.kind = "Cancelled"
    /\ made > 0
    /\ procs # <<>>
    /\ procs[Len(procs)].outcome = "killed"
    /\ ~tmp /\ scratch = {}

\* C17: the response to every Internal error, whatever its message and
\* whatever the tool wrote to stderr, is status 500 with the one fixed body.
C17_GenericInternal ==
    result.kind = "Internal" =>
        result.response =
            [status |-> 500, body |-> [text |-> "Internal Server Error", args |-> <<>>]]

\* a tool exited with a failure and a message on stderr
C17_Witness ==
    /\ frame.pc = "done"
    /\ result.kind = "Internal"
    /\ result.msg = "{what} failed: {stderr}"
    /\ result.args[2].chars > 0
    /\ result.response.status = 500

\* ------------------------------------------------------------------------
\* POST /login (handlers/auth.rs): the only caller of SessionSigner::issue
\* ------------------------------------------------------------------------
\* AuthConfig: APP_USERNAME "ad", APP_PASSWORD "pw"
ExpectedUsername == <<97, 100>>
ExpectedPassword == <<112, 119>>

\* submitted forms: the credentials as configured, in another case, with a
\* trailing blank, empty, and the username given as the password
LoginForms ==
    [username : { <<97, 100>>, <<97, 68>>, <<97, 100, 32>>, <<>> },
     password : { <<112, 119>>, <<112, 87>>, <<>>, <<97, 100>> }]

\* login 30 with the password not compared
UsernameMismatch(form, expected_username, expected_password) ==
    form.username # expected_username

\* login 30: form.username != expected_username ||
\* form.password != expected_password
CredentialsMismatch(form, expected_username, expected_password) ==
    form.username # expected_username \/ form.password # expected_password

\* login 31-35: 401 with the login page and its error line
LoginFailed ==
    [kind |-> "Ok", msg |-> "text/html", args |-> <<>>,
     response |-> [status |-> 401,
                   body |-> [text |-> "render_login_page",
                             args |-> <<"Invalid username or password.">>]]]

\* login 48: Redirect::to("/")
LoginRedirect ==
    [kind |-> "Ok", msg |-> "", args |-> <<>>,
     response |-> [status |-> 303, body |-> [text |-> "", args |-> <<"/">>]]]

InitLogin ==
    /\ ttl \in Ttls
    /\ clock = 0
    /\ cookie = NoCookie
    /\ checked = NoCheck
    /\ endpoint = "login"
    /\ frame = Frame0
    /\ tmp = FALSE
    /\ scratch = {}
    /\ child = NoChild
    /\ procs = <<>>
    /\ polled = FALSE
    /\ made = 0
    /\ result = NoResult
    /\ requests = <<>>
    /\ disk = {}
    /\ issued = {}

\* login 22-49
Login(form) ==
    /\ IF CredentialsMismatch(form, ExpectedUsername, ExpectedPassword)
       THEN /\ cookie' = cookie
            /\ result' = LoginFailed
       ELSE /\ cookie' = [token |-> issue(Key, ttl, form.username, clock),
                          u |-> form.username, at |-> clock]
            /\ result' = LoginRedirect
    /\ frame' = [Frame0 EXCEPT !.pc = "done", !.form = form]
    /\ checked' = NoCheck
    /\ UNCHANGED <<ttl, clock, endpoint, tmp, scratch, child, procs, polled, made, hostVars>>

NextLogin ==
    \/ \E form \in LoginForms : Login(form)
    \/ Advance

SpecLogin == InitLogin /\ [][NextLogin]_vars

\* the payload of the token names the user u
Carries(token, u) ==
    LET parts == Split(token, ChDot) IN
    /\ Len(parts) = 3
    /\ B64Decode(parts[2]).ok
    /\ FromJson(B64Decode(parts[2]).v).ok
    /\ FromJson(B64Decode(parts[2]).v).u = u

\* C18: a login whose username is "ad" and whose password is "pw", the
\* configured credentials, sets a session cookie whose token is issued at
\* that instant and carries "ad"; every other login answers 401 with the
\* login page and leaves the cookie as it was; the cookie changes in no
\* other way.
C18_LoginGate ==
    [][ /\ \A form \in LoginForms :
               Login(form) =>
                   IF form.username = <<97, 100>> /\ form.password = <<112, 119>>
                   THEN /\ cookie'.at = clock
                        /\ Carries(cookie'.token, <<97, 100>>)
                        /\ verify(Key, cookie'.token, clock).stage \in {"ok", "expired"}
                        /\ result'.response.status = 303
                   ELSE /\ cookie' = cookie
                        /\ result'.response.status = 401
                        /\ result'.response.body.text = "render_login_page"
        /\ cookie' # cookie =>
               /\ frame'.form = [username |-> <<97, 100>>, password |-> <<112, 119>>]
               /\ Carries(cookie'.token, <<97, 100>>)
      ]_vars

\* the right username with a wrong password: 401 and no cookie
C18_Witness ==
    /\ endpoint = "login"
    /\ frame.pc = "done"
    /\ frame.form.username = <<97, 100>>
    /\ frame.form.password = <<112, 87>>
    /\ result.response.status = 401
    /\ cookie = NoCookie

\* ---- repeated control fields ----

\* the handler after one more occurrence of a control field, when the
\* request is still being read
ThenQuality(s, text) == IF s.frame.pc = "next_field" THEN QualityStep(s, text) ELSE s
ThenLinearize(s, text) == IF s.frame.pc = "next_field" THEN LinearizeStep(s, text) ELSE s
ThenLayout(s, lay) == IF s.frame.pc = "next_field" THEN LayoutStep(s, lay) ELSE s

\* what the pipeline will work from: whether the request goes on, the three
\* parameters, and the error the request ended with
Params(s) ==
    [pc |-> s.frame.pc, quality |-> s.frame.quality, linearize |-> s.frame.linearize,
     layout_json |-> s.frame.layout_json, msg |-> s.result.msg]

\* C19: for each of quality, linearize and layout, a request in which the
\* field occurs twice is handled as the request with the second occurrence
\* alone, whatever the first occurrence's value: reading one value and then
\* another leaves the parameters (and the request) where reading the second
\* one alone leaves them.
C19_LastOccurrenceWins ==
    (frame.pc = "next_field" /\ endpoint = "merge") =>
        /\ \A t1 \in QualityTexts, t2 \in QualityTexts :
               Params(ThenQuality(QualityStep(St, t1), t2)) = Params(QualityStep(St, t2))
        /\ \A t1 \in LinearizeTexts, t2 \in LinearizeTexts :
               Params(ThenLinearize(LinearizeStep(St, t1), t2)) = Params(LinearizeStep(St, t2))
        /\ \A l1 \in Layouts, l2 \in Layouts :
               Params(ThenLayout(LayoutStep(St, l1), l2)) = Params(LayoutStep(St, l2))

\* the same, for first occurrences of quality that parse as a u8 (in the
\* range 10..100 or not); linearize and layout whatever the first value
C19_ParsedLastWins ==
    (frame.pc = "next_field" /\ endpoint = "merge") =>
        /\ \A t1 \in QualityTexts, t2 \in QualityTexts :
               ParseU8(Trim(t1)).ok =>
                   Params(ThenQuality(QualityStep(St, t1), t2)) = Params(QualityStep(St, t2))
        /\ \A t1 \in LinearizeTexts, t2 \in LinearizeTexts :
               Params(ThenLinearize(LinearizeStep(St, t1), t2)) = Params(LinearizeStep(St, t2))
        /\ \A l1 \in Layouts, l2 \in Layouts :
               Params(ThenLayout(LayoutStep(St, l1), l2)) = Params(LayoutStep(St, l2))

\* an unparseable quality has ended a request before any later field was read
C19_EarlierRejected ==
    /\ frame.pc = "done"
    /\ result.msg = "Invalid quality"
    /\ frame.field.name = <<"quality">>
    /\ ~ParseU8(Trim(frame.field.text)).ok

\* ---- page counts of one request ----

\* the invocations of the log that were started to count the pages of the
\* file at path, whatever became of them
CountRuns(log, path) ==
    { k \in 1..Len(log) : log[k].stage = "count" /\ log[k].args.inputs[1].path = path }

\* the step ends the validation of the plan: the assembly tool is started,
\* or the request ends with one of the two errors about a reference
PlanValidated ==
    /\ frame.pc = "wait" /\ child.stage = "count"
    /\ \/ Started("assemble")
       \/ /\ frame'.pc = "done"
          /\ result'.msg \in {"Layout references unknown doc id: {}",
                              "Invalid page {} for doc {} (max {})"}

\* C20: within one request the counting tool is never started for a
\* document it was already started for, and when the plan has been
\* validated it has run exactly once, to completion, for the file of every
\* uploaded document the plan references, however many references name it.
C20_CountedOnce ==
    [][ /\ Started("count") =>
               CountRuns(procs, procs'[Len(procs')].args.inputs[1].path) = {}
        /\ PlanValidated =>
               \A i \in 1..Len(frame.layout) :
                   frame.layout[i].doc \in DOMAIN frame.inputs_by_id =>
                       LET path == frame.inputs_by_id[frame.layout[i].doc] IN
                       /\ Cardinality(CountRuns(procs', path)) = 1
                       /\ CountsOf(procs', path) = CountRuns(procs', path)
      ]_vars

\* the plan a2, b1, a1, with two references to a, is being assembled after
\* two runs of the counting tool
C20_Witness ==
    /\ frame.pc = "wait"
    /\ child.stage = "assemble"
    /\ Len(frame.layout) = 3
    /\ frame.layout[1].doc = "a" /\ frame.layout[3].doc = "a"
    /\ Cardinality({ k \in 1..Len(procs) : procs[k].stage = "count" }) = 2
    /\ Cardinality(CountRuns(procs, frame.inputs_by_id["a"])) = 1

\* ---- the pipeline of one merge request ----

\* the place of a step in the pipeline
Rank(stage) ==
    CASE stage = "count" -> 1
      [] stage = "assemble" -> 2
      [] stage = "gs" -> 3
      [] stage = "linearize" -> 4
      [] OTHER -> 0

\* the request ends in this step with the merged PDF
RespondsPdf == frame.pc # "done" /\ frame'.pc = "done" /\ result'.kind = "Ok"

\* C21: in a merge request every tool but the latest has exited with
\* status 0 (so tools run one at a time, each after the success of the one
\* before); the steps follow the order count, assemble, recompress,
\* linearize, only the counting occurring more than once; counting and
\* assembly are for requests with a layout, where the recompression follows
\* the assembly, and without a layout the recompression is the first tool;
\* the linearization follows the recompression and is started only when
\* the linearize flag is set, and the PDF returned is the linearization's
\* output when the flag is set and the recompression's when it is not.
C21_LinearPipeline ==
    [][ endpoint = "merge" =>
          /\ \A k \in 1..(Len(procs') - 1) :
                 /\ procs'[k].outcome = "exit0"
                 /\ Rank(procs'[k].stage) <= Rank(procs'[k + 1].stage)
                 /\ Rank(procs'[k].stage) = Rank(procs'[k + 1].stage)
                        => procs'[k].stage = "count"
          /\ \A k \in 1..Len(procs') : Rank(procs'[k].stage) # 0
          /\ Started("count") => frame.layout_json.present
          /\ Started("assemble") =>
                 /\ frame.layout_json.present
                 /\ procs # <<>> /\ procs[Len(procs)].stage = "count"
          /\ Started("gs") =>
                 IF frame.layout_json.present
                 THEN procs # <<>> /\ procs[Len(procs)].stage = "assemble"
                 ELSE procs = <<>>
          /\ Started("linearize") =>
                 /\ frame.linearize
                 /\ procs # <<>> /\ procs[Len(procs)].stage = "gs"
          /\ RespondsPdf =>
                 /\ procs' # <<>>
                 /\ procs'[Len(procs')].outcome = "exit0"
                 /\ procs'[Len(procs')].stage =
                        IF frame.linearize THEN "linearize" ELSE "gs"
      ]_vars

\* a request with a layout over two documents and the linearize flag set
\* has run five tools, count, count, assemble, recompress, linearize, and
\* returned the PDF
C21_Witness ==
    /\ endpoint = "merge"
    /\ frame.pc = "done"
    /\ result.kind = "Ok"
    /\ Len(procs) = 5
    /\ procs[1].stage = "count" /\ procs[2].stage = "count"
    /\ procs[3].stage = "assemble" /\ procs[4].stage = "gs"
    /\ procs[5].stage = "linearize"

\* the ways a tool fails: it cannot be started, it is cut off by the
\* timeout, waiting for it fails, it exits with a non-zero status
Failures == {"nostart", "timeout", "waiterr", "exit1"}

\* a tool fails in this step
ToolFails ==
    \/ Len(procs') > Len(procs) /\ procs'[Len(procs')].outcome \in Failures
    \/ /\ procs # <<>> /\ Len(procs') = Len(procs)
       /\ procs[Len(procs)].outcome = "running"
       /\ procs'[Len(procs')].outcome \in Failures

\* C22: the step of a merge request in which a tool fails ends the request
\* with an Internal error whose response is the 500 with the fixed text and
\* nothing else (no PDF), the failed tool being the latest of the log (no
\* tool was started after it); and once a tool has failed the log of
\* invocations never changes again: nothing is started, nothing retried.
C22_FailureAborts ==
    [][ endpoint = "merge" =>
          /\ ToolFails =>
                 /\ frame'.pc = "done"
                 /\ child' = NoChild
                 /\ result'.kind = "Internal"
                 /\ result'.response.status = 500
                 /\ result'.response.body = [text |-> "Internal Server Error", args |-> <<>>]
                 /\ \A k \in 1..(Len(procs') - 1) : procs'[k].outcome = "exit0"
          /\ (\E k \in 1..Len(procs) : procs[k].outcome \in Failures) =>
                 /\ procs' = procs
                 /\ result' = result
      ]_vars

\* the recompression of an assembled document has exited with a non-zero
\* status, after the counting and the assembly succeeded
C22_Witness ==
    /\ endpoint = "merge"
    /\ frame.pc = "done"
    /\ result.kind = "Internal"
    /\ Len(procs) = 4
    /\ procs[3].stage = "assemble" /\ procs[3].outcome = "exit0"
    /\ procs[4].stage = "gs" /\ procs[4].outcome = "exit1"

\* the two errors about a reference of the plan
RefErrors ==
    {"Layout references unknown doc id: {}", "Invalid page {} for doc {} (max {})"}

\* C23: a merge request that ends with a BadRequest has invoked no tool.
C23_ValidationFirst ==
    (endpoint = "merge" /\ frame.pc = "done" /\ result.kind = "BadRequest")
        => procs = <<>>

\* every BadRequest other than the two about a reference of the plan is
\* returned before any tool was invoked; those two are returned after the
\* counting tool has run for every uploaded id-keyed document, and before
\* any other tool
C23_ValidationBeforeAssembly ==
    (endpoint = "merge" /\ frame.pc = "done" /\ result.kind = "BadRequest") =>
        IF result.msg \in RefErrors
        THEN /\ procs # <<>>
             /\ \A k \in 1..Len(procs) :
                    procs[k].stage = "count" /\ procs[k].outcome = "exit0"
        ELSE procs = <<>>

\* the plan a1, c1 is refused for its unknown id c after the pages of the
\* uploaded document a were counted
C23_CountedBeforeRefusal ==
    /\ endpoint = "merge"
    /\ frame.pc = "done"
    /\ result.msg = "Layout references unknown doc id: {}"
    /\ result.args = <<"c">>
    /\ Len(procs) = 1
    /\ procs[1].stage = "count"

\* ------------------------------------------------------------------------
\* Requests handled at the same time.  Each request runs the handler's steps
\* on a state of its own; the requests meet in the system's temporary
\* directory, where TempDir::new makes each one's scratch directory
\* ------------------------------------------------------------------------
NumRequests == 2
MaxFilesEach == 1

Reqs == 1..NumRequests

\* the names TempDir::new can draw
DirNames == 1..NumRequests
NoDir == 0

\* the locals of a handler that has not started
S0 ==
    [checked |-> NoCheck, frame |-> Frame0, tmp |-> FALSE, scratch |-> {},
     child |-> NoChild, procs |-> <<>>, polled |-> FALSE, made |-> 0,
     result |-> NoResult]

\* TempDir::new taking a name whether or not a directory of that name exists
AnyDirs(d) == DirNames

\* TempDir::new: create_dir fails on a name that exists and another name is
\* drawn; the names it can end up with
FreshDirs(d) == DirNames \ { e.dir : e \in d }

\* tmp.path().join(<file name>): a path of request r, under its directory
Join(dir, path, r) == [dir |-> dir, path |-> path, by |-> r]

\* TempDir's drop: remove_dir_all
RemoveDirAll(d, dir) == { e \in d : e.dir # dir }

\* request r has made a step to the state s2, dir being its directory: the
\* directory and the files of its scratch set exist under that directory, or
\* the directory has been removed with everything in it
Handle(r, dir, s2) ==
    /\ requests' = [requests EXCEPT
                      ![r] = [s |-> s2, dir |-> IF s2.tmp THEN dir ELSE NoDir]]
    /\ disk' = IF s2.tmp
               THEN disk \cup {Join(dir, NoPath, r)}
                         \cup { Join(dir, p, r) : p \in s2.scratch }
               ELSE IF requests[r].s.tmp THEN RemoveDirAll(disk, requests[r].dir)
               ELSE disk
    /\ UNCHANGED <<ttl, clock, cookie, checked, endpoint, frame, tmp, scratch, child,
                   procs, polled, made, result, issued>>

InitHost ==
    /\ ttl = TicksPerSec * MaxTtlSecs
    /\ clock = ttl - 1
    /\ cookie = [token |-> issue(Key, ttl, Admin, 0), u |-> Admin, at |-> 0]
    /\ checked = NoCheck
    /\ endpoint \in {"merge", "npages"}
    /\ frame = Frame0
    /\ tmp = FALSE
    /\ scratch = {}
    /\ child = NoChild
    /\ procs = <<>>
    /\ polled = FALSE
    /\ made = 0
    /\ result = NoResult
    /\ requests = [r \in Reqs |-> [s |-> S0, dir |-> NoDir]]
    /\ disk = {}
    /\ issued = {}

HostBegin(r) ==
    LET s == requests[r].s IN
    /\ s.frame.pc = "start"
    /\ \E ck \in {cookie, NoCookie} :
          IF FreshDirs(disk) = {}
          THEN Handle(r, NoDir, BeginStep(s, ck, clock, "tempdir"))
          ELSE \E d \in FreshDirs(disk) : Handle(r, d, BeginStep(s, ck, clock, "none"))

HostFileField(r) ==
    LET s == requests[r].s
        ct == ContentType(<<"application/pdf">>)
    IN  /\ s.frame.pc = "next_field"
        /\ s.made < MaxFilesEach
        /\ IF endpoint = "merge"
           THEN \E name \in { <<"files">>, <<"file_", "a">> } :
                   Handle(r, requests[r].dir, MergeFileStep(s, name, ct, "none"))
           ELSE Handle(r, requests[r].dir, NPagesFileStep(s, <<"file">>, ct, "none"))

HostFieldChunk(r) ==
    LET s == requests[r].s IN
    /\ s.frame.pc = "chunk"
    /\ s.frame.cur.chunks < 1
    /\ Handle(r, requests[r].dir, ChunkStep(s, Chunk(Magic, 2048), "none"))

HostFieldEnd(r) ==
    LET s == requests[r].s IN
    /\ s.frame.pc = "chunk"
    /\ Handle(r, requests[r].dir, FieldEndStep(s, "none"))

HostStreamEnd(r) ==
    LET s == requests[r].s IN
    /\ s.frame.pc = "next_field"
    /\ \E doc \in NextDocs(s, {}) :
          Handle(r, requests[r].dir,
                 IF endpoint = "merge" THEN MergeEndStep(s, doc, "none")
                 ELSE NPagesEndStep(s))

HostChildExit(r) ==
    LET s == requests[r].s IN
    /\ s.frame.pc = "wait"
    /\ \E outcome \in {"exit0", "exit1"}, doc \in NextDocs(s, {s.child.doc}) :
          Handle(r, requests[r].dir, ExitStep(s, outcome, 1, Utf8(1, 0), FALSE, doc, "none"))

HostCancel(r) ==
    LET s == requests[r].s IN
    /\ s.frame.pc \in {"next_field", "chunk", "wait"}
    /\ Handle(r, requests[r].dir, Return(Kill(s, "killed", FALSE), Cancelled))

NextHost ==
    \E r \in Reqs :
        \/ HostBegin(r)
        \/ HostFileField(r)
        \/ HostFieldChunk(r)
        \/ HostFieldEnd(r)
        \/ HostStreamEnd(r)
        \/ HostChildExit(r)
        \/ HostCancel(r)

SpecHost == InitHost /\ [][NextHost]_vars

\* C24: at every point of every interleaving, two requests that hold a
\* scratch directory hold different ones; everything under the temporary
\* directory was put there by the request that holds the directory it is
\* in; what a request has made is still there while it holds its directory
\* (nobody else removed it) and all of it is gone once it does not; the
\* files a request's tool is given are files the request made itself; and
\* the signer's configuration is as it was at startup.
C24_Isolation ==
    /\ \A r1 \in Reqs, r2 \in Reqs :
           (r1 # r2 /\ requests[r1].s.tmp /\ requests[r2].s.tmp)
               => requests[r1].dir # requests[r2].dir
    /\ \A e \in disk : requests[e.by].s.tmp /\ requests[e.by].dir = e.dir
    /\ \A r \in Reqs :
           LET s == requests[r].s
               dir == requests[r].dir
           IN  /\ s.tmp => /\ dir \in DirNames
                           /\ Join(dir, NoPath, r) \in disk
                           /\ \A p \in s.scratch : Join(dir, p, r) \in disk
               /\ s.child # NoChild =>
                      \A i \in 1..Len(s.child.args.inputs) :
                          Join(dir, s.child.args.inputs[i].path, r) \in disk
               /\ ~s.tmp => dir = NoDir /\ s.scratch = {}
    /\ ttl = TicksPerSec * MaxTtlSecs

\* two requests each wait for a tool working on a file of their own
C24_Witness ==
    /\ requests[1].s.frame.pc = "wait" /\ requests[2].s.frame.pc = "wait"
    /\ Len(requests[1].s.child.args.inputs) = 1
    /\ Len(requests[2].s.child.args.inputs) = 1
    /\ requests[1].s.child.args.inputs[1].path = requests[2].s.child.args.inputs[1].path
    /\ requests[1].dir # requests[2].dir
    /\ Cardinality(disk) = 4

\* ------------------------------------------------------------------------
\* The recompression's parameters for every quality a u8 can hold
\* ------------------------------------------------------------------------
InitQuality ==
    /\ ttl = TicksPerSec * MaxTtlSecs
    /\ clock = 0
    /\ cookie = NoCookie
    /\ checked = NoCheck
    /\ endpoint = "merge"
    /\ \E quality \in 0..255 : frame = [Frame0 EXCEPT !.quality = quality]
    /\ tmp = TRUE
    /\ scratch = {NewPath({}, "in", "legacy", "")}
    /\ child = NoChild
    /\ procs = <<>>
    /\ polled = FALSE
    /\ made = 1
    /\ result = NoResult
    /\ requests = <<>>
    /\ disk = {}
    /\ issued = {}

\* merge_with_ghostscript_to_file_with_timeout called with the quality
Recompress ==
    /\ frame.pc = "start"
    /\ Set(SpawnGs(St, <<NewPath({}, "in", "legacy", "")>>, "none"))

SpecQuality == InitQuality /\ [][Recompress]_vars

Clamped(q) == IF q < 10 THEN 10 ELSE IF q > 100 THEN 100 ELSE q
Dist(a, b) == IF a < b THEN b - a ELSE a - b

\* C25: the resolution and the image quality given to ghostscript for a
\* quality q are the integers nearest to 72 + 228 (c - 10) / 90 and to
\* 20 + 75 (c - 10) / 90, c being q clamped to 10..100 (so that 90 times
\* the integer is within 45 of 90 times the value), the upper one when the
\* value lies halfway; they are (72, 20) at 10 and below and (300, 95) at
\* 100 and above, lie in 72..300 and 20..95, and no greater quality gives a
\* smaller resolution or image quality.
C25_GsParams ==
    child.stage = "gs" =>
        LET q == frame.quality
            c == Clamped(q)
            dpi == child.args.dpi
            jpegq == child.args.jpegq
        IN  /\ Dist(90 * dpi, 72 * 90 + 228 * (c - 10)) <= 45
            /\ Dist(90 * jpegq, 20 * 90 + 75 * (c - 10)) <= 45
            /\ 90 * jpegq + 45 # 20 * 90 + 75 * (c - 10)
            /\ q <= 10 => dpi = 72 /\ jpegq = 20
            /\ q >= 100 => dpi = 300 /\ jpegq = 95
            /\ dpi \in 72..300
            /\ jpegq \in 20..95
            /\ \A q2 \in q..255 :
                   /\ quality_to_gs_params(q2).dpi >= dpi
                   /\ quality_to_gs_params(q2).jpegq >= jpegq

\* quality 13, where the image quality lies halfway (22.5) and becomes 23
C25_Witness ==
    /\ child.stage = "gs"
    /\ frame.quality = 13
    /\ child.args.jpegq = 23
    /\ child.args.dpi = 80

\* ---- what a failed tool's error carries ----

\* C26: the Internal error for a tool that exited with a non-zero status
\* names the tool and carries no more of the tool's stderr than
\* truncate_for_log lets through, MAX bytes and the ellipsis.
C26_StderrExcerpt ==
    (frame.pc = "done" /\ result.msg = "{what} failed: {stderr}") =>
        /\ result.kind = "Internal"
        /\ result.args[1] \in {"qpdf", "ghostscript"}
        /\ Bytes(result.args[2]) <= MAX + 3

\* the error for a non-zero exit names the tool, and the error for output
\* without a page count carries a bounded excerpt of stderr
C26_ToolNamedParseErrorBounded ==
    /\ (frame.pc = "done" /\ result.msg = "{what} failed: {stderr}") =>
           /\ result.kind = "Internal"
           /\ result.args[1] \in {"qpdf", "ghostscript"}
    /\ (frame.pc = "done"
          /\ result.msg = "Failed to parse qpdf output (stdout={}, stderr={})") =>
           Bytes(result.args[1]) <= MAX + 3

\* a tool has exited with a non-zero status after writing 4096 bytes to
\* stderr, and the error carries all of them
C26_WholeStderr ==
    /\ frame.pc = "done"
    /\ result.msg = "{what} failed: {stderr}"
    /\ Bytes(result.args[2]) = 4096

\* ---- the inputs of the recompression ----

\* C27: every invocation of the recompression tool in a merge request is
\* given at least one input document.
C27_GsHasInput ==
    \A k \in 1..Len(procs) :
        procs[k].stage = "gs" => Len(procs[k].args.inputs) >= 1

\* with a layout, or with at least one legacy document, the recompression
\* is given at least one input
C27_GsHasInputUnlessIdsOnly ==
    [][ (Started("gs") /\ (frame.layout_json.present \/ frame.input_paths_legacy # <<>>))
            => Len(procs'[Len(procs')].args.inputs) >= 1 ]_vars

\* a request with one file_<id> document, no legacy document and no layout
\* has started the recompression with no input at all
C27_IdsOnlyNoInput ==
    /\ endpoint = "merge"
    /\ frame.pc = "wait"
    /\ child.stage = "gs"
    /\ child.args.inputs = <<>>
    /\ DOMAIN frame.inputs_by_id = {"a"}
    /\ frame.input_paths_legacy = <<>>
    /\ ~frame.layout_json.present

\* ------------------------------------------------------------------------
\* Logins, logouts and API requests in any order.  cookie is the browser's
\* session cookie; a client may keep a copy of a cookie it was given
\* ------------------------------------------------------------------------
InitAuth ==
    /\ ttl \in Ttls
    /\ clock = 0
    /\ cookie = NoCookie
    /\ checked = NoCheck
    /\ endpoint = "any"
    /\ frame = Frame0
    /\ tmp = FALSE
    /\ scratch = {}
    /\ child = NoChild
    /\ procs = <<>>
    /\ polled = FALSE
    /\ made = 0
    /\ result = NoResult
    /\ requests = <<>>
    /\ disk = {}
    /\ issued = {}

\* the client keeps a copy of the cookie login gave it
Keep ==
    /\ cookie # NoCookie
    /\ cookie \notin issued
    /\ issued' = issued \cup {cookie}
    /\ UNCHANGED <<ttl, clock, cookie, checked, endpoint, frame, tmp, scratch, child,
                   procs, polled, made, result, requests, disk>>

\* logout 51-63: the cookie is verified and the outcome dropped; a removal
\* cookie is sent, which empties the browser's cookie; redirect to "/"
Logout ==
    /\ checked' = IF cookie = NoCookie THEN NoCheck
                  ELSE [token |-> cookie.token, at |-> clock,
                        res |-> authed_username(cookie, clock)]
    /\ cookie' = NoCookie
    /\ result' = LoginRedirect
    /\ frame' = [Frame0 EXCEPT !.pc = "done"]
    /\ UNCHANGED <<ttl, clock, endpoint, tmp, scratch, child, procs, polled, made,
                   hostVars>>

\* merge 105-110 for a request that presents the cookie ck and whose body
\* is not multipart: require_auth, then the multipart rejection
ApiRequest(ck) ==
    LET n == BeginStep(S0, ck, clock, "multipart") IN
    /\ checked' = n.checked
    /\ frame' = n.frame
    /\ result' = n.result
    /\ UNCHANGED <<ttl, clock, cookie, endpoint, tmp, scratch, child, procs, polled,
                   made, hostVars>>

\* a request presents the browser's cookie or a copy that was kept
Request == \E ck \in issued \cup {cookie} : ApiRequest(ck)

\* the right credentials, and the right username with another password
AuthForms ==
    { [username |-> ExpectedUsername, password |-> ExpectedPassword],
      [username |-> ExpectedUsername, password |-> <<112, 87>>] }

NextAuth ==
    \/ \E form \in AuthForms : Login(form)
    \/ Keep
    \/ Logout
    \/ Request
    \/ Advance

SpecAuth == InitAuth /\ [][NextAuth]_vars

\* the token of the cookie ck has not reached its expiry
BeforeExpiry(ck) == UnixTimestamp(clock) < UnixTimestamp(ck.at + ttl)

\* C28: whatever logins, logouts and requests came before, an API request
\* that presents a cookie handed out by login, at a time before the expiry
\* of its token, passes the access check as the configured user, also when
\* the browser's cookie has been removed by logout or replaced by a later
\* login; and a request is refused exactly when verify, applied to the
\* presented token and the current time, refuses.
C28_StatelessTokens ==
    [][ \A ck \in issued \cup {cookie} :
            ApiRequest(ck) =>
                /\ (ck \in issued /\ BeforeExpiry(ck)) =>
                       /\ result'.kind # "Unauthorized"
                       /\ checked'.res.ok
                       /\ checked'.res.u = ExpectedUsername
                /\ (result'.kind = "Unauthorized") <=>
                       (ck = NoCookie \/ ~verify(Key, ck.token, clock).ok)
      ]_vars

\* after a logout has emptied the browser's cookie, a request presenting a
\* kept copy of the cookie has passed the access check
C28_Witness ==
    /\ cookie = NoCookie
    /\ issued # {}
    /\ checked.at = clock
    /\ checked.token \in { ck.token : ck \in issued }
    /\ checked.res.ok
    /\ result.kind = "BadRequest"
    /\ result.msg = "Error parsing multipart/form-data request"

\* ---- a layout together with legacy documents ----

\* the handler's state with the legacy documents forgotten
WithoutLegacy(s) == [s EXCEPT !.frame.input_paths_legacy = <<>>]

\* C29: in a merge request with a layout and at least one id-keyed
\* document, the end of the fields leads to the same step (the same error,
\* or the same tool with the same arguments) as if no legacy document had
\* been uploaded; no tool of the request is given a legacy document; and
\* the recompression is given one input, the output of the assembly that
\* ran just before it, which was built from id-keyed documents only.
C29_LegacyIgnoredWithLayout ==
    [][ (endpoint = "merge" /\ frame.layout_json.present) =>
          /\ (frame.pc = "next_field" /\ DOMAIN frame.inputs_by_id # {}) =>
                 \A doc \in NextDocs(St, {}), fault \in {"none", "spawn"} :
                     LET with == MergeEndStep(St, doc, fault)
                         without == MergeEndStep(WithoutLegacy(St), doc, fault)
                     IN  /\ with.frame.pc = without.frame.pc
                         /\ with.result.kind = without.result.kind
                         /\ with.result.msg = without.result.msg
                         /\ with.child = without.child
          /\ Len(procs') > Len(procs) =>
                 LET inputs == procs'[Len(procs')].args.inputs IN
                 \A i \in 1..Len(inputs) : inputs[i].path.style # "legacy"
          /\ Started("gs") =>
                 LET inputs == procs'[Len(procs')].args.inputs IN
                 /\ Len(inputs) = 1
                 /\ inputs[1].path.kind = "assembled"
                 /\ procs # <<>>
                 /\ procs[Len(procs)].stage = "assemble"
                 /\ inputs[1].path = procs[Len(procs)].args.out
                 /\ \A i \in 1..Len(procs[Len(procs)].args.inputs) :
                        procs[Len(procs)].args.inputs[i].path.style = "id"
      ]_vars

\* a request with a layout over a and b and with a legacy document is at
\* the recompression of its assembled document
C29_Witness ==
    /\ endpoint = "merge"
    /\ frame.pc = "wait"
    /\ child.stage = "gs"
    /\ frame.layout_json.present
    /\ Len(frame.input_paths_legacy) >= 1
    /\ Len(child.args.inputs) = 1
    /\ child.args.inputs[1].path.kind = "assembled"

\* ------------------------------------------------------------------------
\* One request whose client stays connected until it is answered: the
\* handler is polled, a body that is being written ends, the fields end,
\* and a tool that is awaited exits or runs into the timeout
\* ------------------------------------------------------------------------
\* a file field "file_a" or "file_b" ("file" for npages) declared as a PDF
ServedFileField ==
    /\ frame.pc = "next_field"
    /\ LET ct == ContentType(<<"application/pdf">>) IN
       IF endpoint = "merge"
       THEN \E name \in { <<"file_", "a">>, <<"file_", "b">> } :
               Set(MergeFileStep(St, name, ct, "none"))
       ELSE Set(NPagesFileStep(St, <<"file">>, ct, "none"))

\* bodies of the served request: a PDF, and a page of HTML
ServedBodies == { Chunk(Magic, 2048), Chunk(<<"<", "h", "t", "m", "l">>, 9) }

\* the awaited tool exits, with two pages counted and nothing on stderr, or
\* runs into the timeout or fails
ServedExit ==
    /\ frame.pc = "wait"
    /\ \E outcome \in Outcomes, doc \in NextDocs(St, {child.doc}),
          fault \in {"none", "spawn"} :
          Set(ExitStep(St, outcome, 2, Utf8(1, 0), FALSE, doc, fault))

NextServed ==
    \/ Begin
    \/ LinearizeField
    \/ LayoutField
    \/ ServedFileField
    \/ FieldChunk(ServedBodies, 1)
    \/ FieldEnd
    \/ StreamEnd
    \/ StreamError
    \/ ServedExit

\* the runtime polls the handler: Begin is enabled exactly at "start" and
\* leaves it, so its weak fairness is that the handler does not stay there;
\* the body in hand ends, the fields end, the awaited tool exits or times out
SpecServed ==
    /\ Init
    /\ [][NextServed]_vars
    /\ []<>(frame.pc # "start")
    /\ WF_vars(FieldEnd)
    /\ WF_vars(StreamEnd)
    /\ WF_vars(ServedExit)

FinalOutcomes == {"Ok", "BadRequest", "Unauthorized", "Internal"}

\* C30: a merge request whose fields end and whose tools exit or time out
\* is eventually answered; its outcome is set once, to a PDF or JSON
\* response, a BadRequest, an Unauthorized or an Internal error, at the
\* step that ends the handler; the handler makes no step after that; and
\* the tools it has started never number more than its id-keyed documents
\* plus three.
C30_Terminates ==
    /\ (endpoint = "merge") => <>(frame.pc = "done" /\ result.kind \in FinalOutcomes)
    /\ [][ endpoint = "merge" =>
             /\ frame.pc # "done"
             /\ result = NoResult
             /\ result' # NoResult <=> frame'.pc = "done"
             /\ result' # NoResult => result'.kind \in FinalOutcomes
             /\ Len(procs') <= Len(procs) + 1
             /\ Len(procs') <= Cardinality(DOMAIN frame.inputs_by_id) + 3
       ]_vars

\* a request with two id-keyed documents has been answered with the PDF
\* after five tools, each of which exited with status 0
C30_Witness ==
    /\ endpoint = "merge"
    /\ frame.pc = "done"
    /\ result.kind = "Ok"
    /\ result.response.status = 200
    /\ Len(procs) = 2 + 3
    /\ \A k \in 1..Len(procs) : procs[k].outcome = "exit0"

====
